---- MODULE Spec2Model ----
(***************************************************************************)
(* A model of saytype's push-to-talk core (src-tauri/src): the global      *)
(* keyboard tap and hotkey activation state (hotkey.rs), the combo         *)
(* reconfiguration command (lib.rs, config.rs), the push-to-talk recorder  *)
(* (audio.rs), the transcription worker channel (sidecar.rs) and the       *)
(* press / release tasks that tie them together (hotkey.rs).               *)
(***************************************************************************)
EXTENDS Integers, Sequences, FiniteSets, TLC

\* ------------------------------------------------------------------ bounds

\* Keyboard events delivered to the tap in one behaviour.
MaxEvents == 5

\* Key codes submitted in one set_hotkey call.
MaxCodes == 2

\* set_hotkey calls in one behaviour.
MaxReconf == 1

\* Commands issued from the settings window in one behaviour.
MaxCommands == 2

\* Samples the capture buffer holds.
MaxSamples == 2

\* Keyboard events in a behaviour of the whole controller.
MaxCtlEvents == 3

\* Samples in an input of the resampler, in the study of resample_audio.
MaxInputLen == 2700

\* Key codes in one build_label call of the study of build_label.
MaxLabelCodes == 3

\* Float samples are the multiples of 1/MaxSampleSteps in [-2, 2], in the
\* study of the 16-bit encoding.
MaxSampleSteps == 100

\* ------------------------------------------------------------ key codes

\* macOS virtual key codes of the keys the model's keyboard has.
Space == 49
RightCommand == 54
LeftShift == 56
RightShift == 60

KeyCodes == {Space, RightCommand, LeftShift, RightShift}

\* config.rs: is_modifier_keycode
is_modifier_keycode(keycode) ==
    keycode \in {54, 55, 56, 60, 58, 61, 59, 62, 57, 63}

\* The CGEventFlags bit that each modifier key code drives.
FlagOfKey(keycode) ==
    CASE keycode \in {54, 55} -> "Command"
      [] keycode \in {56, 60} -> "Shift"
      [] keycode \in {58, 61} -> "Alternate"
      [] keycode \in {59, 62} -> "Control"
      [] keycode = 57 -> "AlphaShift"
      [] keycode = 63 -> "SecondaryFn"
      [] OTHER -> "None"

\* event.get_flags(): a modifier's bit is set while any key of that modifier
\* is physically down.
FlagsOf(down) ==
    {FlagOfKey(k) : k \in {d \in down : is_modifier_keycode(d)}}

\* hotkey.rs: is_modifier_pressed, by the flag bit of the key's modifier.
is_modifier_pressed(keycode, flags) ==
    CASE keycode \in {54, 55} -> "Command" \in flags
      [] keycode \in {56, 60} -> "Shift" \in flags
      [] keycode \in {58, 61} -> "Alternate" \in flags
      [] keycode \in {59, 62} -> "Control" \in flags
      [] keycode = 57 -> "AlphaShift" \in flags
      [] keycode = 63 -> "SecondaryFn" \in flags
      [] OTHER -> FALSE

\* ------------------------------------------------------------ HotkeyConfig

NoKey == -1

SeqRange(s) == {s[i] : i \in 1..Len(s)}

\* config.rs: HotkeyConfig::default, the right Command key alone.
DefaultHotkey == [modifier_locations |-> <<RightCommand>>, key |-> NoKey]

\* config.rs: HotkeyConfig::required_keycodes
required_keycodes(hotkey) ==
    SeqRange(hotkey.modifier_locations)
        \cup (IF hotkey.key # NoKey THEN {hotkey.key} ELSE {})

\* config.rs: HotkeyConfig::modifier_keycodes
modifier_keycodes(hotkey) == hotkey.modifier_locations

\* The codes the settings window submits for the keys of the model's keyboard,
\* and one code that js_code_to_keycode does not know.
JsCodes == {"Space", "MetaRight", "ShiftLeft", "ShiftRight", "Bogus"}

UnknownCode == -2

\* config.rs: js_code_to_keycode, on the codes of the model's keyboard and of
\* two more plain keys; any other code is unknown.
js_code_to_keycode(code) ==
    CASE code = "KeyA" -> 0
      [] code = "Space" -> 49
      [] code = "MetaRight" -> 54
      [] code = "ShiftLeft" -> 56
      [] code = "ShiftRight" -> 60
      [] code = "F13" -> 105
      [] OTHER -> UnknownCode

\* lib.rs: the loop of set_hotkey over the submitted codes: a modifier is
\* appended to modifier_locations, a non-modifier overwrites the key.
RECURSIVE BuildHotkey_KeepFirst(_, _)
BuildHotkey_KeepFirst(keycodes, acc) ==
    IF keycodes = <<>> THEN acc
    ELSE LET kc == Head(keycodes) IN
         BuildHotkey_KeepFirst(Tail(keycodes),
            IF is_modifier_keycode(kc)
            THEN [acc EXCEPT !.modifier_locations = Append(@, kc)]
            ELSE IF acc.key = NoKey THEN [acc EXCEPT !.key = kc] ELSE acc)

RECURSIVE BuildHotkey(_, _)
BuildHotkey(keycodes, acc) ==
    IF keycodes = <<>> THEN acc
    ELSE LET kc == Head(keycodes) IN
         BuildHotkey(Tail(keycodes),
            IF is_modifier_keycode(kc)
            THEN [acc EXCEPT !.modifier_locations = Append(@, kc)]
            ELSE [acc EXCEPT !.key = kc])

EmptyHotkey == [modifier_locations |-> <<>>, key |-> NoKey]

\* The inputs of set_hotkey: params.codes.
CodeLists ==
    UNION {[1..n -> JsCodes] : n \in 0..MaxCodes}

\* lib.rs: set_hotkey's early returns.
SetHotkeyRejects_AllowEmpty(codes) ==
    \E i \in 1..Len(codes) : js_code_to_keycode(codes[i]) = UnknownCode

SetHotkeyRejects(codes) ==
    \/ codes = <<>>
    \/ \E i \in 1..Len(codes) : js_code_to_keycode(codes[i]) = UnknownCode

NewHotkey(codes) ==
    BuildHotkey([i \in 1..Len(codes) |-> js_code_to_keycode(codes[i])],
                EmptyHotkey)

\* The combos a persisted configuration can hold at startup: the default, or
\* one that an earlier set_hotkey saved.
StartupHotkeys ==
    {DefaultHotkey} \cup {NewHotkey(c) : c \in {l \in CodeLists : ~SetHotkeyRejects(l)}}

\* ------------------------------------------------------------------ state

VARIABLES
    phys,            \* keys physically down as of the last delivered event
    ev,              \* the event the tap callback is handling
    hpc,             \* handle_event's position
    h_required,      \* handle_event: required_keycodes
    h_all_held,      \* handle_event: all_held
    h_was_active,    \* handle_event: was_active
    h_epoch,         \* observer: the number of set_hotkey calls when the combo was read
    h_stale,         \* observer: all_held counted a key held before the reconfiguration under way
    HELD_KEYS,       \* hotkey.rs: HELD_KEYS
    HOTKEY_ACTIVE,   \* hotkey.rs: HOTKEY_ACTIVE
    current_hotkey,  \* AppState.current_hotkey
    nEvents,         \* events delivered so far
    begun,           \* observer: times a key event made (required subset of HELD_KEYS) true
    ended,           \* observer: times a key event made it false
    stale,           \* observer: keys held when the last set_hotkey began, not reported since
    tasks,           \* the tasks spawned by on_hotkey_pressed / on_hotkey_released, in order
    spc,             \* set_hotkey's position
    s_result,        \* set_hotkey's last result
    nReconf,         \* set_hotkey calls so far
    limits,          \* the behaviour's budget of events, reconfigurations and commands
    is_recording,    \* AppState.is_recording
    sidecar_ready,   \* AppState.sidecar_ready
    SIDECAR,         \* sidecar.rs: SIDECAR, the stored worker session
    sidecar_lock,    \* the holder of SIDECAR's mutex (0: free)
    start_pc,        \* sidecar::start's position
    script,          \* the lines the worker prints at startup
    wout,            \* the worker's stdout: lines written and not yet read
    weof,            \* the worker has exited: its stdout is at end of stream
    win,             \* the worker's stdin: request lines written and not yet consumed
    wire,            \* observer: the request lines written and response lines read, in order
    recorder,        \* audio.rs: PTT_RECORDER's PushToTalkRecorder
    rec_lock,        \* the holder of PTT_RECORDER's mutex (0: free)
    nStarts,         \* recorder.start() calls that got a device: numbers streams and paths
    files,           \* the artifact files on disk
    rec_calls,       \* observer: the recorder calls of the press and release tasks
    tap_enabled,     \* the event tap delivers events to the callback
    main_thread,     \* the main event loop: the closures posted to it, and whether one runs
    lock_pos,        \* the lock operations each thread of the lock study has performed
    calc             \* observer: a call's inputs and output: of a pure function in the
                     \* function studies, and the state set_hotkey was called in while it runs

keyVars == <<phys, ev, hpc, h_required, h_all_held, h_was_active, h_epoch, h_stale,
             HELD_KEYS, HOTKEY_ACTIVE, nEvents, begun, ended>>
reconfVars == <<spc, s_result, nReconf>>
sideVars == <<sidecar_ready, SIDECAR, sidecar_lock, start_pc, script, wout,
              weof, win, wire>>
recVars == <<recorder, rec_lock, nStarts, files, rec_calls>>
auxVars == <<tap_enabled, lock_pos, calc>>
restVars == <<limits, auxVars, main_thread, is_recording, sideVars, recVars>>
vars == <<keyVars, current_hotkey, stale, tasks, reconfVars, restVars>>

NoEvent == [type |-> "None", keycode |-> NoKey, flags |-> {}]

\* ------------------------------------------------------------ the keyboard

\* The events the platform delivers for one physical transition of key k: a
\* modifier reports FlagsChanged, any other key KeyDown / KeyUp; a key that
\* stays down repeats KeyDown.
KeyPressEvent(k) ==
    [type |-> IF is_modifier_keycode(k) THEN "FlagsChanged" ELSE "KeyDown",
     keycode |-> k, flags |-> FlagsOf(phys \cup {k})]

KeyReleaseEvent(k) ==
    [type |-> IF is_modifier_keycode(k) THEN "FlagsChanged" ELSE "KeyUp",
     keycode |-> k, flags |-> FlagsOf(phys \ {k})]

KeyRepeatEvent(k) ==
    [type |-> "KeyDown", keycode |-> k, flags |-> FlagsOf(phys)]

\* The tap callback is invoked serially, on the main event loop: the next
\* event is delivered when handle_event has returned, the tap is enabled and
\* the loop runs no other closure.
KeyPress(k) ==
    /\ hpc = "idle" /\ nEvents < limits.events
    /\ tap_enabled /\ ~main_thread.busy
    /\ k \notin phys
    /\ phys' = phys \cup {k}
    /\ ev' = KeyPressEvent(k)
    /\ hpc' = "h_config"
    /\ nEvents' = nEvents + 1
    /\ UNCHANGED <<h_required, h_all_held, h_was_active, h_epoch, h_stale, HELD_KEYS,
                   HOTKEY_ACTIVE, begun, ended, current_hotkey, stale, tasks,
                   reconfVars, restVars>>

KeyRelease(k) ==
    /\ hpc = "idle" /\ nEvents < limits.events
    /\ tap_enabled /\ ~main_thread.busy
    /\ k \in phys
    /\ phys' = phys \ {k}
    /\ ev' = KeyReleaseEvent(k)
    /\ hpc' = "h_config"
    /\ nEvents' = nEvents + 1
    /\ UNCHANGED <<h_required, h_all_held, h_was_active, h_epoch, h_stale, HELD_KEYS,
                   HOTKEY_ACTIVE, begun, ended, current_hotkey, stale, tasks,
                   reconfVars, restVars>>

KeyRepeat(k) ==
    /\ hpc = "idle" /\ nEvents < limits.events
    /\ tap_enabled /\ ~main_thread.busy
    /\ k \in phys /\ ~is_modifier_keycode(k)
    /\ ev' = KeyRepeatEvent(k)
    /\ hpc' = "h_config"
    /\ nEvents' = nEvents + 1
    /\ UNCHANGED <<phys, h_required, h_all_held, h_was_active, h_epoch, h_stale,
                   HELD_KEYS, HOTKEY_ACTIVE, begun, ended, current_hotkey,
                   stale, tasks, reconfVars, restVars>>

\* ------------------------------------------------------------ handle_event

\* hotkey.rs: update_held_key
update_held_key(held, keycode, pressed) ==
    IF pressed THEN held \cup {keycode} ELSE held \ {keycode}

\* hotkey.rs: the match on event_type in handle_event.
HeldAfterEvent(held, e) ==
    CASE e.type = "FlagsChanged" ->
            update_held_key(held, e.keycode, is_modifier_pressed(e.keycode, e.flags))
      [] e.type = "KeyDown" ->
            IF ~is_modifier_keycode(e.keycode)
            THEN update_held_key(held, e.keycode, TRUE) ELSE held
      [] e.type = "KeyUp" ->
            IF ~is_modifier_keycode(e.keycode)
            THEN update_held_key(held, e.keycode, FALSE) ELSE held
      [] OTHER -> held

\* hotkey.rs: required_keycodes.iter().all(|kc| held.contains(kc))
AllHeld(required, held) == \A kc \in required : kc \in held

\* The tasks of one behaviour: one per edge at most, and one per command.
TaskIds == 1..(MaxEvents + MaxCommands)

\* A task of the async runtime: its kind, its position, and what it has read
\* and done so far.
NoResult == [ok |-> FALSE, val |-> "<none>"]

\* What a task handed to text insertion: nothing yet.
NoInsert == [text |-> "<null>", keycodes |-> <<>>]

NewTask(kind, pc) ==
    [kind |-> kind, pc |-> pc, mods |-> <<>>, stale |-> FALSE,
     ready |-> "unread", path |-> 0, result |-> NoResult, did |-> <<>>,
     ins |-> NoInsert]

\* The tasks on_hotkey_pressed and on_hotkey_released spawn.
PressTask(usedStale) ==
    [NewTask("press", "p_ready") EXCEPT !.stale = usedStale]

ReleaseTask(mods) ==
    [NewTask("release", "r_flag") EXCEPT !.mods = mods]

\* handle_event: state.current_hotkey.lock(), required_keycodes().
HandleReadConfig ==
    /\ hpc = "h_config"
    /\ h_required' = required_keycodes(current_hotkey)
    /\ h_epoch' = nReconf
    /\ hpc' = "h_update"
    /\ UNCHANGED <<phys, ev, h_all_held, h_was_active, h_stale, HELD_KEYS,
                   HOTKEY_ACTIVE, nEvents, begun, ended, current_hotkey, stale,
                   tasks, reconfVars, restVars>>

\* handle_event: the match on event_type, under the HELD_KEYS lock.
HandleUpdateHeld ==
    /\ hpc = "h_update"
    /\ HELD_KEYS' = HeldAfterEvent(HELD_KEYS, ev)
    /\ LET req == required_keycodes(current_hotkey)
           was == AllHeld(req, HELD_KEYS)
           now == AllHeld(req, HELD_KEYS')
       IN /\ begun' = IF ~was /\ now THEN begun + 1 ELSE begun
          /\ ended' = IF was /\ ~now THEN ended + 1 ELSE ended
    /\ stale' = stale \ {ev.keycode}
    /\ hpc' = "h_check"
    /\ UNCHANGED <<phys, ev, h_required, h_all_held, h_was_active, h_epoch, h_stale,
                   HOTKEY_ACTIVE, nEvents, current_hotkey, tasks, reconfVars, restVars>>

\* handle_event: all_held, under the HELD_KEYS lock.
HandleCheckHeld ==
    /\ hpc = "h_check"
    /\ h_all_held' = AllHeld(h_required, HELD_KEYS)
    /\ h_stale' = /\ spc = "s_clear" /\ h_epoch = nReconf
                   /\ AllHeld(h_required, HELD_KEYS)
                   /\ h_required \cap stale # {}
    /\ hpc' = "h_load"
    /\ UNCHANGED <<phys, ev, h_required, h_was_active, h_epoch, HELD_KEYS, HOTKEY_ACTIVE,
                   nEvents, begun, ended, current_hotkey, stale, tasks,
                   reconfVars, restVars>>

\* handle_event: was_active = HOTKEY_ACTIVE.load().
HandleLoadActive ==
    /\ hpc = "h_load"
    /\ h_was_active' = HOTKEY_ACTIVE
    /\ hpc' = "h_edge"
    /\ UNCHANGED <<phys, ev, h_required, h_all_held, h_epoch, h_stale, HELD_KEYS,
                   HOTKEY_ACTIVE, nEvents, begun, ended, current_hotkey, stale,
                   tasks, reconfVars, restVars>>

\* handle_event: the edge test; the store and the spawn of the task.
FiresPressed_Always(all_held, was_active) == all_held

FiresPressed(all_held, was_active) == all_held /\ ~was_active

FiresReleased_Never(all_held, was_active) == FALSE

FiresReleased(all_held, was_active) == ~all_held /\ was_active

HandleEdge ==
    /\ hpc = "h_edge"
    /\ IF FiresPressed(h_all_held, h_was_active)
       THEN /\ HOTKEY_ACTIVE' = TRUE
            /\ tasks' = Append(tasks, PressTask(h_stale))
       ELSE IF FiresReleased(h_all_held, h_was_active)
       THEN /\ HOTKEY_ACTIVE' = FALSE
            /\ tasks' = Append(tasks, ReleaseTask(modifier_keycodes(current_hotkey)))
       ELSE UNCHANGED <<HOTKEY_ACTIVE, tasks>>
    /\ hpc' = "idle"
    /\ ev' = NoEvent
    /\ h_required' = {}
    /\ h_all_held' = FALSE
    /\ h_was_active' = FALSE
    /\ h_stale' = FALSE
    /\ h_epoch' = 0
    /\ UNCHANGED <<phys, HELD_KEYS, nEvents, begun, ended, current_hotkey,
                   stale, reconfVars, restVars>>

KeyEvent ==
    \E k \in KeyCodes : KeyPress(k) \/ KeyRelease(k) \/ KeyRepeat(k)

\* ------------------------------------------------- the tap-disabled events

\* The events macOS delivers to the callback when it has disabled the tap.
TapDisabledTypes == {"TapDisabledByTimeout", "TapDisabledByUserInput"}

\* hotkey.rs: the matches! in the tap callback.
IsTapDisabled_Never(type) == FALSE

IsTapDisabled(type) == type \in TapDisabledTypes

\* hotkey.rs: TAP_MACH_PORT, which setup_event_tap sets before it enables
\* the tap and attaches it to the run loop.
TAP_MACH_PORT == "Some"

\* hotkey.rs: reenable_tap
reenable_tap(enabled) == IF TAP_MACH_PORT = "Some" THEN TRUE ELSE enabled

\* macOS disables the tap and invokes the callback with the tap-disabled
\* event: the callback's test sends it to reenable_tap, any other event to
\* handle_event.
TapDisable(type) ==
    /\ hpc = "idle" /\ nEvents < limits.events
    /\ tap_enabled /\ ~main_thread.busy
    /\ tap_enabled' = FALSE
    /\ ev' = [type |-> type, keycode |-> NoKey, flags |-> {}]
    /\ hpc' = IF IsTapDisabled(type) THEN "reenable" ELSE "h_config"
    /\ nEvents' = nEvents + 1
    /\ UNCHANGED <<phys, h_required, h_all_held, h_was_active, h_epoch, h_stale,
                   HELD_KEYS, HOTKEY_ACTIVE, begun, ended, current_hotkey, stale,
                   tasks, reconfVars, limits, lock_pos, calc, main_thread,
                   is_recording, sideVars, recVars>>

\* A key that goes down or up while the tap is disabled: no event reports it.
KeyMissed(k) ==
    /\ ~tap_enabled
    /\ phys' = IF k \in phys THEN phys \ {k} ELSE phys \cup {k}
    /\ UNCHANGED <<ev, hpc, h_required, h_all_held, h_was_active, h_epoch, h_stale,
                   HELD_KEYS, HOTKEY_ACTIVE, nEvents, begun, ended, current_hotkey,
                   stale, tasks, reconfVars, restVars>>

\* The tap callback on a tap-disabled event: reenable_tap(), return.
TapReenable ==
    /\ hpc = "reenable"
    /\ tap_enabled' = reenable_tap(tap_enabled)
    /\ hpc' = "idle"
    /\ ev' = NoEvent
    /\ UNCHANGED <<phys, h_required, h_all_held, h_was_active, h_epoch, h_stale,
                   HELD_KEYS, HOTKEY_ACTIVE, nEvents, begun, ended, current_hotkey,
                   stale, tasks, reconfVars, limits, lock_pos, calc, main_thread,
                   is_recording, sideVars, recVars>>

TapEvent ==
    \/ \E type \in TapDisabledTypes : TapDisable(type)
    \/ \E k \in KeyCodes : KeyMissed(k)
    \/ TapReenable

\* ------------------------------------------------------------ build_label

\* A label is the sequence of its characters; a character outside ASCII is
\* written as its code point (U+2318 is the command sign).
RECURSIVE DecimalDigits(_)
DecimalDigits(n) ==
    LET digit == <<"0", "1", "2", "3", "4", "5", "6", "7", "8", "9">>[(n % 10) + 1]
    IN IF n < 10 THEN <<digit>> ELSE Append(DecimalDigits(n \div 10), digit)

\* The key codes keycode_to_label has a label for.
LabelledCodes ==
    {54, 55, 56, 60, 58, 61, 59, 62, 57, 63, 49, 36, 48, 53, 51,
     122, 120, 99, 118, 96, 97, 98, 100, 101, 109, 103, 111, 105, 107, 113,
     106, 64, 79, 80, 90, 0, 11, 8, 2, 14, 3, 5, 4, 34, 38,
     40, 37, 46, 45, 31, 35, 12, 15, 1, 17, 32, 9, 13, 7, 16,
     6, 18, 19, 20, 21, 23, 22, 26, 28, 25, 29, 123, 124, 125, 126}

\* config.rs: keycode_to_label
keycode_to_label(keycode) ==
    CASE keycode = 54 -> <<"R", "i", "g", "h", "t", " ", "U+2318">>
      [] keycode = 55 -> <<"L", "e", "f", "t", " ", "U+2318">>
      [] keycode = 56 -> <<"L", "e", "f", "t", " ", "U+21E7">>
      [] keycode = 60 -> <<"R", "i", "g", "h", "t", " ", "U+21E7">>
      [] keycode = 58 -> <<"L", "e", "f", "t", " ", "U+2325">>
      [] keycode = 61 -> <<"R", "i", "g", "h", "t", " ", "U+2325">>
      [] keycode = 59 -> <<"L", "e", "f", "t", " ", "U+2303">>
      [] keycode = 62 -> <<"R", "i", "g", "h", "t", " ", "U+2303">>
      [] keycode = 57 -> <<"U+21EA", " ", "C", "a", "p", "s", " ", "L", "o", "c", "k">>
      [] keycode = 63 -> <<"f", "n">>
      [] keycode = 49 -> <<"S", "p", "a", "c", "e">>
      [] keycode = 36 -> <<"R", "e", "t", "u", "r", "n">>
      [] keycode = 48 -> <<"T", "a", "b">>
      [] keycode = 53 -> <<"E", "s", "c", "a", "p", "e">>
      [] keycode = 51 -> <<"D", "e", "l", "e", "t", "e">>
      [] keycode = 122 -> <<"F", "1">>
      [] keycode = 120 -> <<"F", "2">>
      [] keycode = 99 -> <<"F", "3">>
      [] keycode = 118 -> <<"F", "4">>
      [] keycode = 96 -> <<"F", "5">>
      [] keycode = 97 -> <<"F", "6">>
      [] keycode = 98 -> <<"F", "7">>
      [] keycode = 100 -> <<"F", "8">>
      [] keycode = 101 -> <<"F", "9">>
      [] keycode = 109 -> <<"F", "1", "0">>
      [] keycode = 103 -> <<"F", "1", "1">>
      [] keycode = 111 -> <<"F", "1", "2">>
      [] keycode = 105 -> <<"F", "1", "3">>
      [] keycode = 107 -> <<"F", "1", "4">>
      [] keycode = 113 -> <<"F", "1", "5">>
      [] keycode = 106 -> <<"F", "1", "6">>
      [] keycode = 64 -> <<"F", "1", "7">>
      [] keycode = 79 -> <<"F", "1", "8">>
      [] keycode = 80 -> <<"F", "1", "9">>
      [] keycode = 90 -> <<"F", "2", "0">>
      [] keycode = 0 -> <<"A">>
      [] keycode = 11 -> <<"B">>
      [] keycode = 8 -> <<"C">>
      [] keycode = 2 -> <<"D">>
      [] keycode = 14 -> <<"E">>
      [] keycode = 3 -> <<"F">>
      [] keycode = 5 -> <<"G">>
      [] keycode = 4 -> <<"H">>
      [] keycode = 34 -> <<"I">>
      [] keycode = 38 -> <<"J">>
      [] keycode = 40 -> <<"K">>
      [] keycode = 37 -> <<"L">>
      [] keycode = 46 -> <<"M">>
      [] keycode = 45 -> <<"N">>
      [] keycode = 31 -> <<"O">>
      [] keycode = 35 -> <<"P">>
      [] keycode = 12 -> <<"Q">>
      [] keycode = 15 -> <<"R">>
      [] keycode = 1 -> <<"S">>
      [] keycode = 17 -> <<"T">>
      [] keycode = 32 -> <<"U">>
      [] keycode = 9 -> <<"V">>
      [] keycode = 13 -> <<"W">>
      [] keycode = 7 -> <<"X">>
      [] keycode = 16 -> <<"Y">>
      [] keycode = 6 -> <<"Z">>
      [] keycode = 18 -> <<"1">>
      [] keycode = 19 -> <<"2">>
      [] keycode = 20 -> <<"3">>
      [] keycode = 21 -> <<"4">>
      [] keycode = 23 -> <<"5">>
      [] keycode = 22 -> <<"6">>
      [] keycode = 26 -> <<"7">>
      [] keycode = 28 -> <<"8">>
      [] keycode = 25 -> <<"9">>
      [] keycode = 29 -> <<"0">>
      [] keycode = 123 -> <<"U+2190">>
      [] keycode = 124 -> <<"U+2192">>
      [] keycode = 125 -> <<"U+2193">>
      [] keycode = 126 -> <<"U+2191">>
      [] OTHER -> <<"K", "e", "y">> \o
                    (IF keycode < 0 THEN <<"-">> \o DecimalDigits(-keycode)
                     ELSE DecimalDigits(keycode))

\* str::contains
Contains(text, pattern) ==
    \E i \in 1..(Len(text) - Len(pattern) + 1) :
        SubSeq(text, i, i + Len(pattern) - 1) = pattern

\* config.rs: a_is_mod in build_label, decided from the label's text.
IsModifierLabel_CommandOnly(label) == Contains(label, <<"U+2318">>)

IsModifierLabel(label) ==
    \/ Contains(label, <<"U+2318">>) \/ Contains(label, <<"U+21E7">>)
    \/ Contains(label, <<"U+2325">>) \/ Contains(label, <<"U+2303">>)
    \/ Contains(label, <<"f", "n">>) \/ Contains(label, <<"C", "a", "p", "s">>)

\* config.rs: the comparator of labels.sort_by, b_is_mod.cmp(&a_is_mod) =
\* Less: a is a modifier label and b is not.
LabelLess(a, b) == IsModifierLabel(a) /\ ~IsModifierLabel(b)

\* slice::sort_by, a stable sort: each label in turn goes before the first
\* label already placed that it is less than, or to the end.
InsertLabel(sorted, label) ==
    LET before == {i \in 1..Len(sorted) : LabelLess(label, sorted[i])}
        at == IF before = {} THEN Len(sorted) + 1
              ELSE CHOOSE i \in before : \A j \in before : i <= j
    IN SubSeq(sorted, 1, at - 1) \o <<label>> \o SubSeq(sorted, at, Len(sorted))

RECURSIVE SortLabels(_)
SortLabels(labels) ==
    IF labels = <<>> THEN <<>>
    ELSE InsertLabel(SortLabels(SubSeq(labels, 1, Len(labels) - 1)),
                     labels[Len(labels)])

\* [String]::join("+")
RECURSIVE JoinPlus(_)
JoinPlus(labels) ==
    IF labels = <<>> THEN <<>>
    ELSE IF Len(labels) = 1 THEN labels[1]
    ELSE labels[1] \o <<"+">> \o JoinPlus(Tail(labels))

\* config.rs: build_label
build_label(keycodes) ==
    JoinPlus(SortLabels([i \in 1..Len(keycodes) |-> keycode_to_label(keycodes[i])]))

\* -------------------------------------------------------------- set_hotkey

\* No call under observation.
NoCalc == [fn |-> "none"]

\* The combo, the held-key set and the activation state a set_hotkey call
\* found.
StateAtCall ==
    [fn |-> "set_hotkey: state at call", hotkey |-> current_hotkey,
     held |-> HELD_KEYS, active |-> HOTKEY_ACTIVE]

\* lib.rs: set_hotkey up to the replacement of current_hotkey; an empty list
\* or an unknown code returns an error before anything is changed.
SetHotkeyReplace(codes) ==
    /\ spc = "idle" /\ nReconf < limits.reconf
    /\ nReconf' = nReconf + 1
    /\ IF SetHotkeyRejects(codes)
       THEN /\ s_result' = "err"
            /\ UNCHANGED <<spc, current_hotkey, stale, calc>>
       ELSE /\ current_hotkey' = NewHotkey(codes)
            /\ stale' = HELD_KEYS
            /\ s_result' = "none"
            /\ spc' = "s_clear"
            /\ calc' = StateAtCall
    /\ UNCHANGED <<keyVars, tasks, limits, tap_enabled, lock_pos, main_thread,
                   is_recording, sideVars, recVars>>

\* hotkey.rs: clear_held_keys, held.clear() under the HELD_KEYS lock.
SetHotkeyClearHeld ==
    /\ spc = "s_clear"
    /\ HELD_KEYS' = {}
    /\ stale' = {}
    /\ spc' = "s_store"
    /\ UNCHANGED <<phys, ev, hpc, h_required, h_all_held, h_was_active, h_epoch, h_stale,
                   HOTKEY_ACTIVE, nEvents, begun, ended, current_hotkey, tasks,
                   s_result, nReconf, restVars>>

\* hotkey.rs: clear_held_keys, HOTKEY_ACTIVE.store(false).
SetHotkeyStoreIdle_Skip ==
    /\ spc = "s_store"
    /\ spc' = "s_save"
    /\ UNCHANGED <<keyVars, current_hotkey, stale, tasks, s_result, nReconf, restVars>>

SetHotkeyStoreIdle ==
    /\ spc = "s_store"
    /\ HOTKEY_ACTIVE' = FALSE
    /\ spc' = "s_save"
    /\ UNCHANGED <<phys, ev, hpc, h_required, h_all_held, h_was_active, h_epoch, h_stale,
                   HELD_KEYS, nEvents, begun, ended, current_hotkey, stale,
                   tasks, s_result, nReconf, restVars>>

\* lib.rs: load_config, save_config and the return; the write may fail.
SetHotkeySave ==
    /\ spc = "s_save"
    /\ \E ok \in BOOLEAN : s_result' = IF ok THEN "ok" ELSE "err"
    /\ spc' = "idle"
    /\ calc' = NoCalc
    /\ UNCHANGED <<keyVars, current_hotkey, stale, tasks, nReconf, limits, tap_enabled,
                   lock_pos, main_thread, is_recording, sideVars, recVars>>

SetHotkey ==
    \/ \E codes \in CodeLists : SetHotkeyReplace(codes)
    \/ SetHotkeyClearHeld
    \/ SetHotkeyStoreIdle
    \/ SetHotkeySave

\* ------------------------------------------------------- the worker's lines

Null == "<null>"

\* One line of the worker's stdout: a status object, a response object, or
\* text that is no JSON object.
StatusLine(status) ==
    [kind |-> "status", status |-> status, success |-> FALSE,
     text |-> Null, error |-> Null]

ResponseLine(success, text, error) ==
    [kind |-> "response", status |-> Null, success |-> success,
     text |-> text, error |-> error]

GarbageLine == [StatusLine(Null) EXCEPT !.kind = "garbage"]

\* read_line at end of stream: Ok(0), the line stays empty.
EofLine == [StatusLine(Null) EXCEPT !.kind = "eof"]

\* sidecar.rs: serde_json::from_str::<StatusResponse>: any JSON object
\* parses, and status is None when the field is absent.
ParseStatus(line) ==
    IF line.kind \in {"status", "response"}
    THEN [ok |-> TRUE, status |-> line.status]
    ELSE [ok |-> FALSE, status |-> Null]

\* sidecar.rs: serde_json::from_str::<TranscribeResponse>: the object must
\* have the success field.
ParseResponse(line) ==
    IF line.kind = "response"
    THEN [ok |-> TRUE, success |-> line.success, text |-> line.text, error |-> line.error]
    ELSE [ok |-> FALSE, success |-> FALSE, text |-> Null, error |-> Null]

\* The startup outputs of a worker: up to two lines.
StartupLines ==
    {StatusLine(st) : st \in {"loading", "ready", "bogus", Null}} \cup {GarbageLine}

StartupScripts == UNION {[1..n -> StartupLines] : n \in 0..2}

\* The worker's answers to a request.
ResponseLines ==
    {ResponseLine(TRUE, "hello", Null), ResponseLine(TRUE, "", Null),
     ResponseLine(TRUE, Null, Null), ResponseLine(FALSE, Null, "boom"),
     ResponseLine(FALSE, Null, Null), GarbageLine}

\* read_line on the worker's stdout: the next line, or end of stream once
\* the worker is gone; it blocks while neither is there.
CanReadLine == wout # <<>> \/ weof

NextLine == IF wout # <<>> THEN Head(wout) ELSE EofLine

RestLines == IF wout # <<>> THEN Tail(wout) ELSE wout

\* ----------------------------------------------------------- sidecar::start

\* sidecar.rs: start, the verdict on the first status line.
FirstLineVerdict_NoElse(parsed) ==
    IF ~parsed.ok THEN "fail"
    ELSE IF parsed.status = "loading" THEN "more"
    ELSE "go"

FirstLineVerdict(parsed) ==
    IF ~parsed.ok THEN "fail"
    ELSE IF parsed.status = "loading" THEN "more"
    ELSE IF parsed.status # "ready" THEN "fail"
    ELSE "go"

\* sidecar.rs: start, the verdict on the line after "loading".
SecondLineVerdict(parsed) ==
    IF ~parsed.ok THEN "fail"
    ELSE IF parsed.status # "ready" THEN "fail"
    ELSE "go"

\* get_sidecar_path and Command::spawn: either may fail.
StartSpawn ==
    /\ start_pc = "spawn"
    /\ \E ok \in BOOLEAN : start_pc' = IF ok THEN "read1" ELSE "failed"
    /\ UNCHANGED <<keyVars, current_hotkey, stale, tasks, reconfVars, limits, auxVars, main_thread,
                   is_recording, sidecar_ready, SIDECAR, sidecar_lock, script,
                   wout, weof, win, wire, recVars>>

StartReadFirst ==
    /\ start_pc = "read1"
    /\ CanReadLine
    /\ wout' = RestLines
    /\ start_pc' = CASE FirstLineVerdict(ParseStatus(NextLine)) = "more" -> "read2"
                     [] FirstLineVerdict(ParseStatus(NextLine)) = "go" -> "store"
                     [] OTHER -> "failed"
    /\ UNCHANGED <<keyVars, current_hotkey, stale, tasks, reconfVars, limits, auxVars, main_thread,
                   is_recording, sidecar_ready, SIDECAR, sidecar_lock, script,
                   weof, win, wire, recVars>>

StartReadSecond ==
    /\ start_pc = "read2"
    /\ CanReadLine
    /\ wout' = RestLines
    /\ start_pc' = IF SecondLineVerdict(ParseStatus(NextLine)) = "go"
                   THEN "store" ELSE "failed"
    /\ UNCHANGED <<keyVars, current_hotkey, stale, tasks, reconfVars, limits, auxVars, main_thread,
                   is_recording, sidecar_ready, SIDECAR, sidecar_lock, script,
                   weof, win, wire, recVars>>

\* sidecar.rs: SIDECAR.lock() held for one statement.
SidecarLockFree_NoMutex(holder) == TRUE

SidecarLockFree(holder) == holder = 0

\* *sidecar = Some(SidecarProcess {..}), under the SIDECAR lock.
StartStore_Skip ==
    /\ start_pc = "store"
    /\ start_pc' = "flag"
    /\ UNCHANGED <<keyVars, current_hotkey, stale, tasks, reconfVars, limits, auxVars, main_thread,
                   is_recording, sidecar_ready, SIDECAR, sidecar_lock, script, wout,
                   weof, win, wire, recVars>>

StartStore ==
    /\ start_pc = "store"
    /\ SidecarLockFree(sidecar_lock)
    /\ SIDECAR' = "Some"
    /\ start_pc' = "flag"
    /\ UNCHANGED <<keyVars, current_hotkey, stale, tasks, reconfVars, limits, auxVars, main_thread,
                   is_recording, sidecar_ready, sidecar_lock, script, wout,
                   weof, win, wire, recVars>>

\* *sidecar_ready = true, the sidecar-ready event and the return.
StartSetReady ==
    /\ start_pc = "flag"
    /\ sidecar_ready' = TRUE
    /\ start_pc' = "done"
    /\ UNCHANGED <<keyVars, current_hotkey, stale, tasks, reconfVars, limits, auxVars, main_thread,
                   is_recording, SIDECAR, sidecar_lock, script, wout, weof,
                   win, wire, recVars>>

SidecarStart ==
    \/ StartSpawn
    \/ StartReadFirst
    \/ StartReadSecond
    \/ StartStore
    \/ StartSetReady

\* --------------------------------------------------------------- the worker

\* The worker answers the oldest request it has not answered.
WorkerRespond ==
    /\ ~weof
    /\ win # <<>>
    /\ win' = Tail(win)
    /\ \E line \in ResponseLines : wout' = Append(wout, line)
    /\ UNCHANGED <<keyVars, current_hotkey, stale, tasks, reconfVars, limits, auxVars, main_thread,
                   is_recording, sidecar_ready, SIDECAR, sidecar_lock, start_pc,
                   script, weof, wire, recVars>>

\* The worker exits: its stdout ends after what it has written.
WorkerExit ==
    /\ ~weof
    /\ weof' = TRUE
    /\ UNCHANGED <<keyVars, current_hotkey, stale, tasks, reconfVars, limits, auxVars, main_thread,
                   is_recording, sidecar_ready, SIDECAR, sidecar_lock, start_pc,
                   script, wout, win, wire, recVars>>

\* ------------------------------------------------------ sidecar::transcribe

\* sidecar.rs: sidecar.as_mut().ok_or("Sidecar not running")
SidecarRunning_Always(session) == TRUE

SidecarRunning(session) == session # "None"

\* sidecar.rs: the result transcribe builds from the response line.
TranscribeResult_NoError(line) ==
    LET r == ParseResponse(line) IN
    IF ~r.ok THEN [ok |-> FALSE, val |-> "Failed to parse transcription response"]
    ELSE IF r.success
    THEN (IF r.text # Null THEN [ok |-> TRUE, val |-> r.text]
          ELSE [ok |-> FALSE, val |-> "No text in response"])
    ELSE [ok |-> FALSE, val |-> "Unknown error"]

TranscribeResult_Defaults(line) ==
    LET r == ParseResponse(line) IN
    IF ~r.ok THEN [ok |-> FALSE, val |-> "Failed to parse transcription response"]
    ELSE IF r.success
    THEN [ok |-> TRUE, val |-> IF r.text # Null THEN r.text ELSE ""]
    ELSE [ok |-> FALSE, val |-> IF r.error # Null THEN r.error ELSE ""]

TranscribeResult_Lenient(line) ==
    LET r == ParseResponse(line) IN
    IF ~r.ok THEN [ok |-> TRUE, val |-> ""]
    ELSE IF r.success
    THEN (IF r.text # Null THEN [ok |-> TRUE, val |-> r.text]
          ELSE [ok |-> FALSE, val |-> "No text in response"])
    ELSE (IF r.error # Null THEN [ok |-> FALSE, val |-> r.error]
          ELSE [ok |-> FALSE, val |-> "Unknown error"])

TranscribeResult(line) ==
    LET r == ParseResponse(line) IN
    IF ~r.ok THEN [ok |-> FALSE, val |-> "Failed to parse transcription response"]
    ELSE IF r.success
    THEN (IF r.text # Null THEN [ok |-> TRUE, val |-> r.text]
          ELSE [ok |-> FALSE, val |-> "No text in response"])
    ELSE (IF r.error # Null THEN [ok |-> FALSE, val |-> r.error]
          ELSE [ok |-> FALSE, val |-> "Unknown error"])

\* Where a task goes on when its transcribe call has returned.
AfterTranscribe(task) ==
    CASE task.kind = "release" -> "r_result"
      [] task.kind = "test_stop_and_transcribe" -> "c_result"
      [] OTHER -> "done"

Did(task, what) == [task EXCEPT !.did = Append(@, what)]

\* transcribe: SIDECAR.lock() and the check that a session is stored; without
\* one the call returns at once and the guard is dropped.
TranscribeLock(i) ==
    /\ i \in DOMAIN tasks
    /\ tasks[i].pc = "t_lock"
    /\ SidecarLockFree(sidecar_lock)
    /\ IF SidecarRunning(SIDECAR)
       THEN /\ sidecar_lock' = i
            /\ tasks' = [tasks EXCEPT ![i] = [@ EXCEPT !.pc = "t_write"]]
       ELSE /\ tasks' = [tasks EXCEPT ![i] =
                    [@ EXCEPT !.pc = AfterTranscribe(tasks[i]),
                              !.result = [ok |-> FALSE, val |-> "Sidecar not running"]]]
            /\ UNCHANGED sidecar_lock
    /\ UNCHANGED <<keyVars, current_hotkey, stale, reconfVars, limits, auxVars, main_thread,
                   is_recording, sidecar_ready, SIDECAR, start_pc, script,
                   wout, weof, win, wire, recVars>>

\* transcribe: writeln! and flush of the request line; the write fails when
\* the worker is gone, and the call returns.
TranscribeWrite(i) ==
    /\ i \in DOMAIN tasks
    /\ tasks[i].pc = "t_write"
    /\ IF weof
       THEN /\ tasks' = [tasks EXCEPT ![i] =
                    [@ EXCEPT !.pc = AfterTranscribe(tasks[i]),
                              !.result = [ok |-> FALSE, val |-> "Failed to send command to sidecar"]]]
            /\ sidecar_lock' = 0
            /\ UNCHANGED <<win, wire>>
       ELSE /\ win' = Append(win, i)
            /\ wire' = Append(wire, [op |-> "request", by |-> i])
            /\ tasks' = [tasks EXCEPT ![i] = [@ EXCEPT !.pc = "t_read"]]
            /\ UNCHANGED sidecar_lock
    /\ UNCHANGED <<keyVars, current_hotkey, stale, reconfVars, limits, auxVars, main_thread,
                   is_recording, sidecar_ready, SIDECAR, start_pc, script,
                   wout, weof, recVars>>

\* transcribe: read_line (which may fail: the line is no UTF-8), the parse,
\* the result and the return.
TranscribeRead(i) ==
    /\ i \in DOMAIN tasks
    /\ tasks[i].pc = "t_read"
    /\ CanReadLine
    /\ wout' = RestLines
    /\ wire' = Append(wire, [op |-> "response", by |-> i])
    /\ \E read \in BOOLEAN :
          tasks' = [tasks EXCEPT ![i] =
            [@ EXCEPT !.pc = AfterTranscribe(tasks[i]),
                      !.result = IF read THEN TranscribeResult(NextLine)
                                 ELSE [ok |-> FALSE, val |-> "Failed to read from sidecar"]]]
    /\ sidecar_lock' = 0
    /\ UNCHANGED <<keyVars, current_hotkey, stale, reconfVars, limits, auxVars, main_thread,
                   is_recording, sidecar_ready, SIDECAR, start_pc, script,
                   weof, win, recVars>>

Transcribe ==
    \E i \in TaskIds :
        TranscribeLock(i) \/ TranscribeWrite(i) \/ TranscribeRead(i)

\* lib.rs: the transcribe_audio command, callable at any time.
TranscribeAudioCommand ==
    /\ Len(tasks) < limits.commands
    /\ tasks' = Append(tasks, NewTask("transcribe_audio", "t_lock"))
    /\ UNCHANGED <<keyVars, current_hotkey, stale, reconfVars, restVars>>

\* ------------------------------------------------------ PushToTalkRecorder

\* audio.rs: TARGET_SAMPLE_RATE, and the native rates of the input devices
\* the model has.
TARGET_SAMPLE_RATE == 16000

DeviceRates == {16000, 32000, 48000}

\* The recorder calls that the press and release tasks make are logged.
LogCall(task, call) ==
    IF task.kind \in {"press", "release"} THEN Append(rec_calls, call) ELSE rec_calls

\* audio.rs: start() up to the reset of the sample buffer, under the
\* PTT_RECORDER lock: the new output path, the default input device and its
\* config (either may be missing: the call returns), the cleared buffer.
\* start() does not look at self.stream.
StartBegin(i) ==
    /\ i \in DOMAIN tasks
    /\ tasks[i].pc = "a_start"
    /\ rec_lock = 0
    /\ rec_calls' = LogCall(tasks[i], "start")
    /\ nStarts' = nStarts + 1
    /\ \E device \in BOOLEAN :
          IF ~device
          THEN /\ recorder' = [recorder EXCEPT !.output_path = nStarts + 1]
               /\ tasks' = [tasks EXCEPT ![i] = [Did(@, "start:err") EXCEPT !.pc = "done"]]
               /\ UNCHANGED rec_lock
          ELSE /\ \E rate \in DeviceRates :
                    recorder' = [recorder EXCEPT !.output_path = nStarts + 1,
                                                 !.sample_rate = rate,
                                                 !.samples = <<>>]
               /\ tasks' = [tasks EXCEPT ![i] = [@ EXCEPT !.pc = "a_open"]]
               /\ rec_lock' = i
    /\ UNCHANGED <<keyVars, current_hotkey, stale, reconfVars, limits, auxVars, main_thread,
                   is_recording, sideVars, files>>

\* audio.rs: start() from build_input_stream on: the stream may fail to be
\* built or played (the call returns, the buffer stays cleared); otherwise
\* self.stream takes the new stream and the one it held is dropped.  The
\* press task then reports recording-started.
StartOpen(i) ==
    /\ i \in DOMAIN tasks
    /\ tasks[i].pc = "a_open"
    /\ rec_lock = i
    /\ rec_lock' = 0
    /\ \E built \in BOOLEAN :
          IF ~built
          THEN /\ tasks' = [tasks EXCEPT ![i] = [Did(@, "start:err") EXCEPT !.pc = "done"]]
               /\ UNCHANGED recorder
          ELSE /\ recorder' = [recorder EXCEPT !.stream = recorder.output_path]
               /\ tasks' = [tasks EXCEPT ![i] =
                      [(IF @.kind = "press"
                        THEN Did(Did(@, "start:ok"), "recording-started")
                        ELSE Did(@, "start:ok")) EXCEPT !.pc = "done"]]
    /\ UNCHANGED <<keyVars, current_hotkey, stale, reconfVars, limits, auxVars, main_thread,
                   is_recording, sideVars, nStarts, files, rec_calls>>

\* audio.rs: the input callback of the open stream appends to the buffer,
\* on the audio thread.
AudioDeliver ==
    /\ recorder.stream # 0
    /\ Len(recorder.samples) < MaxSamples
    /\ recorder' = [recorder EXCEPT !.samples =
            Append(@, [stream |-> recorder.stream, n |-> Len(@) + 1])]
    /\ UNCHANGED <<keyVars, current_hotkey, stale, tasks, reconfVars, limits, auxVars, main_thread,
                   is_recording, sideVars, rec_lock, nStarts, files, rec_calls>>

\* audio.rs: chunk_size in resample_audio.
chunk_size == 1024

RECURSIVE GCD(_, _)
GCD(a, b) == IF b = 0 THEN a ELSE GCD(b, a % b)

Min(a, b) == IF a <= b THEN a ELSE b

\* audio.rs: resampler.input_frames_next() of FftFixedInOut::new(source_rate,
\* target_rate, chunk_size, 1): chunk_size rounded up to a whole number of
\* the smallest blocks the rate ratio allows.
input_frames_per_chunk(source_rate, target_rate) ==
    LET unit == source_rate \div GCD(source_rate, target_rate)
    IN ((chunk_size + unit - 1) \div unit) * unit

\* audio.rs: resampled[0].len(), the output of one chunk: the resampler's
\* fixed output size for its fixed input size.
output_frames_per_chunk(source_rate, target_rate) ==
    (input_frames_per_chunk(source_rate, target_rate) * target_rate) \div source_rate

\* resample_audio with output assigned by each chunk instead of extended.
ResampledLen_Overwrite(n, source_rate, target_rate) ==
    LET frames == input_frames_per_chunk(source_rate, target_rate)
        per_chunk == output_frames_per_chunk(source_rate, target_rate)
    IN IF n % frames > 0
       THEN Min(((n % frames) * target_rate) \div source_rate, per_chunk)
       ELSE IF n >= frames THEN per_chunk ELSE 0

\* audio.rs: resample_audio, the number of samples it returns for n input
\* samples: the whole chunks, then the share of the zero-padded last chunk
\* that corresponds to real input.
ResampledLen(n, source_rate, target_rate) ==
    LET frames == input_frames_per_chunk(source_rate, target_rate)
        per_chunk == (frames * target_rate) \div source_rate
        whole == n \div frames
        remaining == n % frames
    IN whole * per_chunk
         + (IF remaining > 0
            THEN Min((remaining * target_rate) \div source_rate, per_chunk)
            ELSE 0)

\* A sample the resampler computed: its value is the library's.
Interpolated == [stream |-> 0, n |-> 0]

\* audio.rs: resample_audio when it succeeds.
resample_audio_NoShortcut(samples, source_rate, target_rate) ==
    [i \in 1..ResampledLen(Len(samples), source_rate, target_rate) |-> Interpolated]

resample_audio(samples, source_rate, target_rate) ==
    IF source_rate = target_rate THEN samples
    ELSE [i \in 1..ResampledLen(Len(samples), source_rate, target_rate) |-> Interpolated]

\* audio.rs: stop(), resampled: the resampler is used only when the device
\* rate is not the target rate.
StopResampled(rec) ==
    IF rec.sample_rate # TARGET_SAMPLE_RATE
    THEN resample_audio(rec.samples, rec.sample_rate, TARGET_SAMPLE_RATE)
    ELSE rec.samples

\* audio.rs: write_wav_file, the 16-bit PCM samples of the file.
EncodeWav(samples) == [i \in 1..Len(samples) |-> [pcm |-> samples[i]]]

\* audio.rs: write_wav_file, the 16-bit value of one float sample, here the
\* fraction num/den: (sample.clamp(-1.0, 1.0) * i16::MAX as f32) as i16.
I16Max == 32767

\* f32::clamp(-1.0, 1.0) of num/den, as a numerator.
ClampUnit(num, den) ==
    IF num < -den THEN -den ELSE IF num > den THEN den ELSE num

\* The float-to-integer cast: toward zero, saturating at the i16 range.
TruncDiv(a, b) == IF a >= 0 THEN a \div b ELSE -((-a) \div b)

SaturateI16(v) ==
    IF v > I16Max THEN I16Max ELSE IF v < -I16Max - 1 THEN -I16Max - 1 ELSE v

SampleToI16(num, den) ==
    SaturateI16(TruncDiv(ClampUnit(num, den) * I16Max, den))

\* The size of a finalized WAV file: the header and two bytes per sample.
WavHeaderBytes == 44

WavFileBytes(data) == WavHeaderBytes + 2 * Len(data)

\* audio.rs: stop(), metadata.len() <= 44.
TooSmall_Never(bytes) == FALSE

TooSmall(bytes) == bytes <= WavHeaderBytes

\* audio.rs: stop(), samples.is_empty().
NoSamples_Never(samples) == FALSE

NoSamples(samples) == samples = <<>>

\* What can go wrong in stop() once it has taken a non-empty buffer: the
\* resampler fails (when it is used), the file cannot be created, or a write
\* or the finalize fails with the file created.
StopFailures(rec) ==
    {"none", "create_err", "write_err"}
        \cup (IF rec.sample_rate # TARGET_SAMPLE_RATE THEN {"resample_err"} ELSE {})

\* The error stop() returns, or "none": its early returns in order.
StopError(rec, failure) ==
    CASE rec.stream = 0 -> "No recording in progress"
      [] NoSamples(rec.samples) -> "No audio samples recorded"
      [] failure = "resample_err" -> "Resampling error"
      [] failure = "create_err" -> "Failed to create WAV file"
      [] failure = "write_err" -> "Failed to write sample"
      [] TooSmall(WavFileBytes(EncodeWav(StopResampled(rec)))) ->
            "WAV file is empty or too small"
      [] OTHER -> "none"

\* The file stop() leaves at output_path: none before WavWriter::create has
\* succeeded; some of the samples when a write failed; all of them otherwise.
StopFiles(rec, failure) ==
    LET data == EncodeWav(StopResampled(rec)) IN
    CASE StopError(rec, failure) \in
            {"No recording in progress", "No audio samples recorded",
             "Resampling error", "Failed to create WAV file"} -> {}
      [] failure = "write_err" ->
            {[path |-> rec.output_path, data |-> SubSeq(data, 1, n)] :
                n \in 0..(Len(data) - 1)}
               \cup (IF data = <<>> THEN {[path |-> rec.output_path, data |-> data]} ELSE {})
      [] OTHER -> {[path |-> rec.output_path, data |-> data]}

\* std::fs::remove_file(path), errors ignored.
remove_file(fs, path) == {f \in fs : f.path # path}

\* Where a task goes on when stop() has returned an error.
AfterStopFailed_Continue(task) == "t_lock"

AfterStopFailed(task) == "done"

\* hotkey.rs: the release task when stop_recording returned a path: the tray
\* is reset and transcription-started is emitted.
ReleaseAfterStop_Silent(task) == Did(task, "stop:ok")

ReleaseAfterStop(task) == Did(Did(task, "stop:ok"), "transcription-started")

\* audio.rs: stop(), under the PTT_RECORDER lock: the stream is taken and
\* dropped, the buffer is taken, resampled, written and checked.  The release
\* task then reports transcription-started when it got a path.
Stop(i) ==
    /\ i \in DOMAIN tasks
    /\ tasks[i].pc = "a_stop"
    /\ rec_lock = 0
    /\ rec_calls' = LogCall(tasks[i], "stop")
    /\ recorder' = IF recorder.stream = 0 THEN recorder
                   ELSE [recorder EXCEPT !.stream = 0, !.samples = <<>>]
    /\ \E failure \in StopFailures(recorder) :
          LET err == StopError(recorder, failure) IN
          /\ IF StopFiles(recorder, failure) = {}
             THEN files' = files
             ELSE \E file \in StopFiles(recorder, failure) :
                     files' = remove_file(files, recorder.output_path) \cup {file}
          /\ tasks' = [tasks EXCEPT ![i] =
                IF err # "none"
                THEN [Did(@, "stop:err") EXCEPT
                         !.pc = AfterStopFailed(tasks[i]),
                         !.result = [ok |-> FALSE, val |-> err]]
                ELSE [(IF @.kind = "release"
                       THEN ReleaseAfterStop(@)
                       ELSE Did(@, "stop:ok"))
                      EXCEPT !.pc = "t_lock", !.path = recorder.output_path]]
    /\ UNCHANGED <<keyVars, current_hotkey, stale, reconfVars, limits, auxVars, main_thread,
                   is_recording, sideVars, rec_lock, nStarts>>

\* lib.rs: the test_start_recording and test_stop_and_transcribe commands,
\* callable at any time.
TestStartRecordingCommand ==
    /\ Len(tasks) < limits.commands
    /\ tasks' = Append(tasks, NewTask("test_start_recording", "a_start"))
    /\ UNCHANGED <<keyVars, current_hotkey, stale, reconfVars, restVars>>

TestStopAndTranscribeCommand ==
    /\ Len(tasks) < limits.commands
    /\ tasks' = Append(tasks, NewTask("test_stop_and_transcribe", "a_stop"))
    /\ UNCHANGED <<keyVars, current_hotkey, stale, reconfVars, restVars>>

\* lib.rs: test_stop_and_transcribe after transcribe: the file is removed
\* when the call succeeded.
TestStopCleanup(i) ==
    /\ i \in DOMAIN tasks
    /\ tasks[i].pc = "c_result"
    /\ files' = IF tasks[i].result.ok THEN remove_file(files, tasks[i].path) ELSE files
    /\ tasks' = [tasks EXCEPT ![i] = [@ EXCEPT !.pc = "done"]]
    /\ UNCHANGED <<keyVars, current_hotkey, stale, reconfVars, limits, auxVars, main_thread,
                   is_recording, sideVars, recorder, rec_lock, nStarts, rec_calls>>

\* -------------------------------------------------------- on_hotkey_pressed

\* hotkey.rs: if !*sidecar_ready { play_busy_sound(); return; }
PressAborts_Never(ready) == FALSE

PressAborts(ready) == ~ready

\* The press task reads sidecar_ready under its lock.
PressCheckReady(i) ==
    /\ i \in DOMAIN tasks
    /\ tasks[i].pc = "p_ready"
    /\ tasks' = [tasks EXCEPT ![i] =
          IF PressAborts(sidecar_ready)
          THEN [Did(@, "busy") EXCEPT !.pc = "done",
                    !.ready = IF sidecar_ready THEN "true" ELSE "false"]
          ELSE [@ EXCEPT !.pc = "p_flag",
                    !.ready = IF sidecar_ready THEN "true" ELSE "false"]]
    /\ UNCHANGED <<keyVars, current_hotkey, stale, reconfVars, restVars>>

\* *is_recording = true, under its lock; the start cue.
PressSetRecording(i) ==
    /\ i \in DOMAIN tasks
    /\ tasks[i].pc = "p_flag"
    /\ is_recording' = TRUE
    /\ tasks' = [tasks EXCEPT ![i] = [Did(@, "is_recording:=true") EXCEPT !.pc = "a_start"]]
    /\ UNCHANGED <<keyVars, current_hotkey, stale, reconfVars, limits, auxVars, main_thread,
                   sideVars, recVars>>

\* ------------------------------------------------------- on_hotkey_released

\* *is_recording = false, under its lock; the stop cue.
ReleaseClearRecording(i) ==
    /\ i \in DOMAIN tasks
    /\ tasks[i].pc = "r_flag"
    /\ is_recording' = FALSE
    /\ tasks' = [tasks EXCEPT ![i] = [Did(@, "is_recording:=false") EXCEPT !.pc = "a_stop"]]
    /\ UNCHANGED <<keyVars, current_hotkey, stale, reconfVars, limits, auxVars, main_thread,
                   sideVars, recVars>>

\* hotkey.rs: the match on transcribe's result: an error, a text to insert,
\* or an empty text.
ReleaseOutcome_NoEmptyCheck(result) ==
    IF ~result.ok THEN "error" ELSE "insert"

ReleaseOutcome(result) ==
    IF ~result.ok THEN "error"
    ELSE IF result.val # "" THEN "insert"
    ELSE "silent"

\* hotkey.rs: handle.run_on_main_thread(closure): the closure is queued for
\* the main event loop and the call returns.
run_on_main_thread(main, closure) == [main EXCEPT !.queue = Append(@, closure)]

\* hotkey.rs: the arms of that match, then remove_file: the text and the
\* modifier key codes read at the released edge go to
\* insert_text_via_clipboard on the main thread (a failure there is logged),
\* and transcription-complete is emitted.
ReleaseFinish(i) ==
    /\ i \in DOMAIN tasks
    /\ tasks[i].pc = "r_result"
    /\ tasks' = [tasks EXCEPT ![i] =
          [(CASE ReleaseOutcome(@.result) = "error" -> Did(@, "transcription-error")
              [] ReleaseOutcome(@.result) = "insert" ->
                    [Did(Did(@, "insert"), "transcription-complete") EXCEPT
                        !.ins = [text |-> tasks[i].result.val,
                                 keycodes |-> tasks[i].mods]]
              [] OTHER -> @) EXCEPT !.pc = "done"]]
    /\ main_thread' = IF ReleaseOutcome(tasks[i].result) = "insert"
                      THEN run_on_main_thread(main_thread,
                               [text |-> tasks[i].result.val,
                                keycodes |-> tasks[i].mods])
                      ELSE main_thread
    /\ files' = remove_file(files, tasks[i].path)
    /\ UNCHANGED <<keyVars, current_hotkey, stale, reconfVars, limits, auxVars,
                   is_recording, sideVars, recorder, rec_lock, nStarts, rec_calls>>

\* The main event loop takes the next closure posted to it, when it is not in
\* the tap callback: insert_text_via_clipboard runs on the main thread, with
\* its three sleeps and the paste command it waits for.
MainInsertBegin ==
    /\ hpc = "idle"
    /\ ~main_thread.busy /\ main_thread.queue # <<>>
    /\ main_thread' = [main_thread EXCEPT !.busy = TRUE]
    /\ UNCHANGED <<keyVars, current_hotkey, stale, tasks, reconfVars, limits, auxVars,
                   is_recording, sideVars, recVars>>

\* insert_text_via_clipboard returns: the loop is free again.
MainInsertEnd ==
    /\ main_thread.busy
    /\ main_thread' = [queue |-> Tail(main_thread.queue), busy |-> FALSE]
    /\ UNCHANGED <<keyVars, current_hotkey, stale, tasks, reconfVars, limits, auxVars,
                   is_recording, sideVars, recVars>>

MainLoop ==
    \/ MainInsertBegin
    \/ MainInsertEnd

\* ---------------------------------------------------------- specifications

InitKeyboard ==
    /\ phys = {}
    /\ ev = NoEvent
    /\ hpc = "idle"
    /\ h_required = {}
    /\ h_all_held = FALSE
    /\ h_was_active = FALSE
    /\ h_epoch = 0
    /\ h_stale = FALSE
    /\ HELD_KEYS = {}
    /\ HOTKEY_ACTIVE = FALSE
    /\ nEvents = 0
    /\ begun = 0
    /\ ended = 0
    /\ stale = {}
    /\ tasks = <<>>
    /\ spc = "idle"
    /\ s_result = "none"
    /\ nReconf = 0

\* The startup output of a worker that loads its model and comes up.
GoodScript == <<StatusLine("loading"), StatusLine("ready")>>

\* The main event loop with nothing posted to it.
MainIdle == [queue |-> <<>>, busy |-> FALSE]

InitController ==
    /\ is_recording = FALSE
    /\ tap_enabled = TRUE
    /\ main_thread = MainIdle

\* No lock study under way.
NoLocks == <<>>

InitQuiet ==
    /\ lock_pos = NoLocks
    /\ calc = NoCalc

InitSidecar(scripts) ==
    /\ script \in scripts
    /\ sidecar_ready = FALSE
    /\ SIDECAR = "None"
    /\ sidecar_lock = 0
    /\ start_pc = "spawn"
    /\ wout = script
    /\ weof = FALSE
    /\ win = <<>>
    /\ wire = <<>>

InitRecorder ==
    /\ recorder = [stream |-> 0, samples |-> <<>>, sample_rate |-> 0,
                   output_path |-> 0]
    /\ rec_lock = 0
    /\ nStarts = 0
    /\ files = {}
    /\ rec_calls = <<>>

\* The tap under one combo that never changes.
InitKeys ==
    /\ InitKeyboard /\ InitController /\ InitSidecar({GoodScript}) /\ InitRecorder /\ InitQuiet
    /\ current_hotkey \in StartupHotkeys
    /\ limits = [events |-> MaxEvents, reconf |-> 0, commands |-> 0]

HandleEvent ==
    \/ HandleReadConfig
    \/ HandleUpdateHeld
    \/ HandleCheckHeld
    \/ HandleLoadActive
    \/ HandleEdge

NextKeys ==
    \/ KeyEvent
    \/ HandleEvent

SpecKeys == InitKeys /\ [][NextKeys]_vars

\* The tap under one combo, with macOS disabling it at any time.
InitTap ==
    /\ InitKeyboard /\ InitController /\ InitSidecar({GoodScript}) /\ InitRecorder /\ InitQuiet
    /\ current_hotkey \in StartupHotkeys
    /\ limits = [events |-> MaxCtlEvents + 1, reconf |-> 0, commands |-> 0]

NextTap ==
    \/ KeyEvent
    \/ HandleEvent
    \/ TapEvent

SpecTap == InitTap /\ [][NextTap]_vars

\* The tap and a concurrent set_hotkey command.
InitReconf ==
    /\ InitKeyboard /\ InitController /\ InitSidecar({GoodScript}) /\ InitRecorder /\ InitQuiet
    /\ current_hotkey = DefaultHotkey
    /\ limits = [events |-> MaxCtlEvents, reconf |-> MaxReconf, commands |-> 0]

NextReconf ==
    \/ KeyEvent
    \/ HandleEvent
    \/ SetHotkey

SpecReconf == InitReconf /\ [][NextReconf]_vars

\* The tap and set_hotkey commands that do not overlap a callback: set_hotkey
\* is called and returns between two key events.
InitSeq ==
    /\ InitKeyboard /\ InitController /\ InitSidecar({GoodScript}) /\ InitRecorder /\ InitQuiet
    /\ current_hotkey = DefaultHotkey
    /\ limits = [events |-> MaxCtlEvents, reconf |-> MaxReconf, commands |-> 0]

NextSeq ==
    \/ spc = "idle" /\ KeyEvent
    \/ spc = "idle" /\ HandleEvent
    \/ hpc = "idle" /\ SetHotkey

SpecSeq == InitSeq /\ [][NextSeq]_vars

\* set_hotkey called with keys held and the tap quiet: any startup combo,
\* any set of keys down and reported, the hotkey Active exactly if the combo
\* is held.
InitClear ==
    /\ phys \in SUBSET KeyCodes
    /\ HELD_KEYS = phys
    /\ current_hotkey \in StartupHotkeys
    /\ HOTKEY_ACTIVE = AllHeld(required_keycodes(current_hotkey), HELD_KEYS)
    /\ ev = NoEvent /\ hpc = "idle"
    /\ h_required = {} /\ h_all_held = FALSE /\ h_was_active = FALSE
    /\ h_epoch = 0 /\ h_stale = FALSE
    /\ nEvents = 0 /\ begun = 0 /\ ended = 0
    /\ stale = {} /\ tasks = <<>>
    /\ spc = "idle" /\ s_result = "none" /\ nReconf = 0
    /\ InitController /\ InitSidecar({GoodScript}) /\ InitRecorder /\ InitQuiet
    /\ limits = [events |-> 0, reconf |-> MaxReconf, commands |-> 0]

NextClear ==
    \/ SetHotkey

SpecClear == InitClear /\ [][NextClear]_vars

\* The worker channel: startup, and transcribe commands issued at any time.
InitChannel ==
    /\ InitKeyboard /\ InitController /\ InitSidecar(StartupScripts) /\ InitRecorder /\ InitQuiet
    /\ current_hotkey = DefaultHotkey
    /\ limits = [events |-> 0, reconf |-> 0, commands |-> MaxCommands]

NextChannel ==
    \/ SidecarStart
    \/ TranscribeAudioCommand
    \/ Transcribe
    \/ WorkerRespond
    \/ WorkerExit

SpecChannel == InitChannel /\ [][NextChannel]_vars

\* The recorder, driven by the test commands and the audio thread.
InitAudio ==
    /\ InitKeyboard /\ InitController /\ InitSidecar({GoodScript}) /\ InitRecorder /\ InitQuiet
    /\ current_hotkey = DefaultHotkey
    /\ limits = [events |-> 0, reconf |-> 0, commands |-> MaxCommands + 1]

NextAudio ==
    \/ TestStartRecordingCommand
    \/ TestStopAndTranscribeCommand
    \/ \E i \in TaskIds : StartBegin(i) \/ StartOpen(i) \/ Stop(i) \/ TestStopCleanup(i)
    \/ AudioDeliver
    \/ SidecarStart
    \/ Transcribe
    \/ WorkerRespond

SpecAudio == InitAudio /\ [][NextAudio]_vars

\* The whole controller: the tap, the press and release tasks, the recorder
\* and the worker channel.
Init ==
    /\ InitKeyboard /\ InitController /\ InitSidecar({GoodScript}) /\ InitRecorder /\ InitQuiet
    /\ current_hotkey = DefaultHotkey
    /\ limits = [events |-> MaxCtlEvents, reconf |-> 0, commands |-> 0]

Next ==
    \/ KeyEvent
    \/ HandleEvent
    \/ SidecarStart
    \/ \E i \in TaskIds :
          \/ PressCheckReady(i) \/ PressSetRecording(i)
          \/ StartBegin(i) \/ StartOpen(i)
          \/ ReleaseClearRecording(i) \/ Stop(i) \/ ReleaseFinish(i)
    \/ AudioDeliver
    \/ Transcribe
    \/ WorkerRespond
    \/ MainLoop

Spec == Init /\ [][Next]_vars

\* The whole controller over two push-to-talk cycles: the tasks of the second
\* cycle run while those of the first are still under way.
InitOverlap ==
    /\ InitKeyboard /\ InitController /\ InitSidecar({GoodScript}) /\ InitRecorder /\ InitQuiet
    /\ current_hotkey = DefaultHotkey
    /\ limits = [events |-> MaxCtlEvents + 1, reconf |-> 0, commands |-> 0]

SpecOverlap == InitOverlap /\ [][Next]_vars

\* Two push-to-talk cycles around a request the worker is slow to answer. The
\* first cycle has run up to its request: the hotkey was pressed with the
\* worker ready, one sample was captured at the target rate, the hotkey was
\* released, and the release task holds the session and has written its
\* request line. The worker may answer at any time, or never.
InitHung ==
    /\ phys = {} /\ ev = NoEvent /\ hpc = "idle"
    /\ h_required = {} /\ h_all_held = FALSE /\ h_was_active = FALSE
    /\ h_epoch = 0 /\ h_stale = FALSE
    /\ HELD_KEYS = {} /\ HOTKEY_ACTIVE = FALSE
    /\ nEvents = 2 /\ begun = 1 /\ ended = 1 /\ stale = {}
    /\ spc = "idle" /\ s_result = "none" /\ nReconf = 0
    /\ current_hotkey = DefaultHotkey
    /\ tasks = << [NewTask("press", "done") EXCEPT
                     !.ready = "true",
                     !.did = <<"is_recording:=true", "start:ok", "recording-started">>],
                  [NewTask("release", "t_read") EXCEPT
                     !.mods = modifier_keycodes(DefaultHotkey),
                     !.path = 1,
                     !.did = <<"is_recording:=false", "stop:ok",
                               "transcription-started">>] >>
    /\ is_recording = FALSE /\ tap_enabled = TRUE /\ main_thread = MainIdle
    /\ script = GoodScript /\ start_pc = "done"
    /\ sidecar_ready = TRUE /\ SIDECAR = "Some" /\ sidecar_lock = 2
    /\ wout = <<>> /\ weof = FALSE /\ win = <<2>>
    /\ wire = <<[op |-> "request", by |-> 2]>>
    /\ recorder = [stream |-> 0, samples |-> <<>>, sample_rate |-> TARGET_SAMPLE_RATE,
                   output_path |-> 1]
    /\ rec_lock = 0 /\ nStarts = 1
    /\ files = {[path |-> 1, data |-> EncodeWav(<<[stream |-> 1, n |-> 1]>>)]}
    /\ rec_calls = <<"start", "stop">>
    /\ InitQuiet
    /\ limits = [events |-> MaxCtlEvents + 1, reconf |-> 0, commands |-> 0]

NextHung ==
    \/ KeyEvent
    \/ HandleEvent
    \/ \E i \in TaskIds :
          \/ PressCheckReady(i) \/ PressSetRecording(i)
          \/ StartBegin(i) \/ StartOpen(i)
          \/ ReleaseClearRecording(i) \/ Stop(i) \/ ReleaseFinish(i)
    \/ AudioDeliver
    \/ Transcribe
    \/ WorkerRespond
    \/ MainLoop

SpecHung == InitHung /\ [][NextHung]_vars

\* ------------------------------------------------------- the lock study

\* The shared-state locks, and the lock and unlock operations each thread
\* performs, in program order, on each of its paths.
Locks == {"current_hotkey", "HELD_KEYS", "is_recording", "sidecar_ready",
          "SIDECAR", "PTT_RECORDER", "samples", "TRAY_ICON"}

Lock(l) == [op |-> "lock", lock |-> l]

Unlock(l) == [op |-> "unlock", lock |-> l]

Section(l) == <<Lock(l), Unlock(l)>>

\* audio.rs: start_recording / stop_recording: PTT_RECORDER.lock(), inside it
\* start() / stop() take the sample buffer's lock in a block of their own,
\* and the recorder's guard is dropped at the return.
RecorderSection ==
    <<Lock("PTT_RECORDER")>> \o Section("samples") \o <<Unlock("PTT_RECORDER")>>

\* audio.rs: the same when start() or stop() returns an error before it
\* reaches the sample buffer (no device, no stream).
RecorderSectionEarlyError == Section("PTT_RECORDER")

\* A path that returns early performs a prefix of the operations below and
\* drops its guard at the return; only paths that are no prefix of another
\* are listed.

\* hotkey.rs: the tap callback: handle_event reads the combo, update_held_key
\* and the all_held test lock HELD_KEYS one after the other, and on a
\* released edge on_hotkey_released reads the combo again.
CallbackLocks ==
    {Section("current_hotkey") \o Section("HELD_KEYS") \o Section("HELD_KEYS")
        \o Section("current_hotkey")}

\* hotkey.rs: the press task with drop(sidecar_ready) left out.
PressTaskLocks_NoDrop ==
    {<<Lock("sidecar_ready")>> \o Section("is_recording")
        \o <<Unlock("sidecar_ready")>> \o RecorderSection \o Section("TRAY_ICON")}

\* hotkey.rs: the press task: drop(sidecar_ready), is_recording in the
\* if-let block, start_recording, tray::set_recording_state.
PressTaskLocks ==
    {Section("sidecar_ready") \o Section("is_recording") \o RecorderSection
        \o Section("TRAY_ICON")}

\* hotkey.rs: the release task: is_recording in its block, stop_recording,
\* tray::set_recording_state on both arms, and sidecar::transcribe, which
\* holds SIDECAR from its first line to its return.
ReleaseTaskLocks ==
    {Section("is_recording") \o RecorderSectionEarlyError \o Section("TRAY_ICON"),
     Section("is_recording") \o RecorderSection \o Section("TRAY_ICON")
        \o Section("SIDECAR")}

\* lib.rs: set_hotkey: the combo replaced in a block, then clear_held_keys.
SetHotkeyLocks == {Section("current_hotkey") \o Section("HELD_KEYS")}

\* sidecar.rs: start: the session stored in a block, then sidecar_ready.
SidecarStartLocks == {Section("SIDECAR") \o Section("sidecar_ready")}

\* audio.rs: the stream's data callback.
AudioThreadLocks == {Section("samples")}

LockThreads == {"callback", "press", "release", "set_hotkey", "sidecar_start", "audio"}

LockPaths(t) ==
    CASE t = "callback" -> CallbackLocks
      [] t = "press" -> PressTaskLocks
      [] t = "release" -> ReleaseTaskLocks
      [] t = "set_hotkey" -> SetHotkeyLocks
      [] t = "sidecar_start" -> SidecarStartLocks
      [] OTHER -> AudioThreadLocks

\* A thread between two runs.
Resting == [path |-> <<>>, pos |-> 0]

\* The locks a thread holds: locked on its path so far and not unlocked since.
HeldBy(run) ==
    {l \in Locks : \E i \in 1..run.pos :
        /\ run.path[i] = Lock(l)
        /\ \A j \in (i + 1)..run.pos : run.path[j] # Unlock(l)}

LockIsFree(l) == \A t \in LockThreads : l \notin HeldBy(lock_pos[t])

\* The next operation of a thread in the middle of a path.
Running(run) == run.pos < Len(run.path)

NextOp(run) == run.path[run.pos + 1]

\* A thread performs its next operation; a lock() waits until the lock is
\* free. A thread that has finished a path rests, and starts any of its
\* paths again.
LockStep(t) ==
    /\ Running(lock_pos[t])
    /\ NextOp(lock_pos[t]).op = "lock" => LockIsFree(NextOp(lock_pos[t]).lock)
    /\ lock_pos' = [lock_pos EXCEPT ![t] =
          IF @.pos + 1 = Len(@.path) THEN Resting ELSE [@ EXCEPT !.pos = @ + 1]]
    /\ UNCHANGED <<keyVars, current_hotkey, stale, tasks, reconfVars, limits,
                   tap_enabled, calc, main_thread, is_recording, sideVars, recVars>>

LockStart(t) ==
    /\ ~Running(lock_pos[t])
    /\ \E path \in LockPaths(t) : lock_pos' = [lock_pos EXCEPT ![t] = [path |-> path, pos |-> 0]]
    /\ UNCHANGED <<keyVars, current_hotkey, stale, tasks, reconfVars, limits,
                   tap_enabled, calc, main_thread, is_recording, sideVars, recVars>>

InitLocks ==
    /\ InitKeyboard /\ InitController /\ InitSidecar({GoodScript}) /\ InitRecorder
    /\ current_hotkey = DefaultHotkey
    /\ limits = [events |-> 0, reconf |-> 0, commands |-> 0]
    /\ calc = NoCalc
    /\ lock_pos = [t \in LockThreads |-> Resting]

NextLocks ==
    \E t \in LockThreads : LockStep(t) \/ LockStart(t)

SpecLocks == InitLocks /\ [][NextLocks]_vars

\* resample_audio alone: one call on an input of any length at any pair of
\* rates.
ResampleRates == {16000, 32000, 44100, 48000}

InitPure ==
    /\ InitKeyboard /\ InitController /\ InitSidecar({GoodScript}) /\ InitRecorder
    /\ current_hotkey = DefaultHotkey
    /\ limits = [events |-> 0, reconf |-> 0, commands |-> 0]
    /\ lock_pos = NoLocks

InitResample ==
    /\ InitPure
    /\ \E n \in 0..MaxInputLen, source_rate \in ResampleRates, target_rate \in ResampleRates :
          calc = [fn |-> "resample_audio", n |-> n, source_rate |-> source_rate,
                  target_rate |-> target_rate, out |-> -1]

\* The samples of a captured buffer of n samples.
CapturedSamples(n) == [i \in 1..n |-> [stream |-> 1, n |-> i]]

ResampleCall ==
    /\ calc.fn = "resample_audio" /\ calc.out = -1
    /\ calc' = [calc EXCEPT !.out =
          Len(resample_audio(CapturedSamples(calc.n), calc.source_rate, calc.target_rate))]
    /\ UNCHANGED <<keyVars, current_hotkey, stale, tasks, reconfVars, limits,
                   tap_enabled, lock_pos, main_thread, is_recording, sideVars, recVars>>

NextResample ==
    \/ ResampleCall

SpecResample == InitResample /\ [][NextResample]_vars

\* The 16-bit encoding alone: one float sample written by write_wav_file.
InitEncode ==
    /\ InitPure
    /\ \E num \in (-2 * MaxSampleSteps)..(2 * MaxSampleSteps) :
          calc = [fn |-> "write_wav_file", num |-> num, den |-> MaxSampleSteps,
                  written |-> FALSE, sample_i16 |-> 0]

WriteSample ==
    /\ calc.fn = "write_wav_file" /\ ~calc.written
    /\ calc' = [calc EXCEPT !.written = TRUE,
                            !.sample_i16 = SampleToI16(calc.num, calc.den)]
    /\ UNCHANGED <<keyVars, current_hotkey, stale, tasks, reconfVars, limits,
                   tap_enabled, lock_pos, main_thread, is_recording, sideVars, recVars>>

NextEncode ==
    \/ WriteSample

SpecEncode == InitEncode /\ [][NextEncode]_vars

\* build_label alone: one call on any single key code the label table knows,
\* or on a list of modifier, plain and unknown key codes.
LabelCodes == {54, 55, 56, 60, 58, 61, 59, 62, 57, 63, 49, 36, 3, 122, 0, 29, 123, 200}

LabelCodeLists ==
    {<<k>> : k \in LabelledCodes}
        \cup UNION {[1..n -> LabelCodes] : n \in 0..MaxLabelCodes}

InitLabel ==
    /\ InitPure
    /\ \E keycodes \in LabelCodeLists :
          calc = [fn |-> "build_label", keycodes |-> keycodes, built |-> FALSE,
                  label |-> <<>>]

BuildLabelCall ==
    /\ calc.fn = "build_label" /\ ~calc.built
    /\ calc' = [calc EXCEPT !.built = TRUE, !.label = build_label(calc.keycodes)]
    /\ UNCHANGED <<keyVars, current_hotkey, stale, tasks, reconfVars, limits,
                   tap_enabled, lock_pos, main_thread, is_recording, sideVars, recVars>>

NextLabel ==
    \/ BuildLabelCall

SpecLabel == InitLabel /\ [][NextLabel]_vars

\* The combo set_hotkey builds, alone: one call on any list of codes of
\* plain keys, modifiers and an unknown code.
ComboCodes == {"KeyA", "Space", "F13", "MetaRight", "ShiftLeft", "Bogus"}

ComboCodeLists == UNION {[1..n -> ComboCodes] : n \in 0..(MaxCodes + 1)}

InitCombo ==
    /\ InitPure
    /\ \E codes \in ComboCodeLists :
          calc = [fn |-> "set_hotkey", codes |-> codes, returned |-> FALSE,
                  err |-> FALSE, hotkey |-> EmptyHotkey]

BuildHotkeyCall ==
    /\ calc.fn = "set_hotkey" /\ ~calc.returned
    /\ calc' = [calc EXCEPT !.returned = TRUE,
                            !.err = SetHotkeyRejects(calc.codes),
                            !.hotkey = IF SetHotkeyRejects(calc.codes) THEN EmptyHotkey
                                       ELSE NewHotkey(calc.codes)]
    /\ UNCHANGED <<keyVars, current_hotkey, stale, tasks, reconfVars, limits,
                   tap_enabled, lock_pos, main_thread, is_recording, sideVars, recVars>>

NextCombo ==
    \/ BuildHotkeyCall

SpecCombo == InitCombo /\ [][NextCombo]_vars

\* ------------------------------------------------------------------ claims

NumTasks(kind) == Cardinality({i \in 1..Len(tasks) : tasks[i].kind = kind})

\* C1: under a fixed combo, whenever handle_event has returned, the number of
\* pressed notifications equals the number of times the required key codes
\* became all held, and the number of released notifications equals the
\* number of times that stopped being so: one pressed at the start of each
\* maximal interval, one released at its end, and nothing for an event that
\* leaves the condition as it was.
C1_EdgeOncePerInterval ==
    hpc = "idle" =>
        /\ NumTasks("press") = begun
        /\ NumTasks("release") = ended

\* C1's case: two full intervals, with an event in between that changed
\* nothing (more events than edges).
C1_Witness ==
    /\ hpc = "idle"
    /\ begun = 2 /\ ended = 2
    /\ NumTasks("press") = 2 /\ NumTasks("release") = 2
    /\ nEvents = 5

\* C2: reconfiguration is atomic for the event callback, so no pressed
\* notification is fired because of keys that were already held before the
\* reconfiguration: no press task is spawned by a callback that read the new
\* combo and whose all_held counted a key which was in the held-key set when
\* set_hotkey replaced the combo and which no key event has reported since.
C2_NoPressFromStaleKeys ==
    \A i \in DOMAIN tasks : ~tasks[i].stale

\* C3: after every processed event the held-key set is the set of keys that
\* are physically down, so with every key released it is empty and the
\* hotkey is Idle.
C3_HeldIsPhysical ==
    hpc = "idle" =>
        /\ HELD_KEYS = phys
        /\ (phys = {} => HELD_KEYS = {} /\ ~HOTKEY_ACTIVE)

\* C7: a press task that found the sidecar readiness flag false has signalled
\* busy and returned, and has done nothing else: it has not set the
\* recording flag, not called the recorder, not reported recording-started.
C7_NotReadyAborts ==
    \A i \in DOMAIN tasks :
        (tasks[i].kind = "press" /\ tasks[i].ready = "false") =>
            /\ tasks[i].pc = "done"
            /\ tasks[i].did = <<"busy">>

\* C7's case: a press edge was handled while the worker was still starting;
\* the recorder was never called and the recording flag is false.
C7_Witness ==
    \E i \in DOMAIN tasks :
        /\ tasks[i].kind = "press" /\ tasks[i].ready = "false"
        /\ tasks[i].pc = "done"
        /\ ~sidecar_ready /\ ~is_recording /\ rec_calls = <<>>

\* C8: when a press task that found the sidecar ready returns because the
\* capture start failed, the recording flag is false.
C8_FailedStartLeavesFlagFalse ==
    [][\A i \in DOMAIN tasks :
          (/\ tasks[i].kind = "press"
           /\ tasks[i].pc \in {"a_start", "a_open"}
           /\ tasks'[i].pc = "done"
           /\ "start:err" \in SeqRange(tasks'[i].did)) => ~is_recording']_vars

\* C9: the press and release tasks never call the recorder's start() twice
\* without a stop() in between.
C9_NoStartAfterStart ==
    \A j \in 1..(Len(rec_calls) - 1) :
        ~(rec_calls[j] = "start" /\ rec_calls[j + 1] = "start")

\* C10: a start() call made while a capture stream is open returns an error
\* and leaves the stream and the buffered samples as they were.
C10_StartOnOpenStreamRefused ==
    [][\A i \in DOMAIN tasks :
          (/\ tasks[i].pc = "a_start"
           /\ tasks'[i].pc # "a_start"
           /\ recorder.stream # 0) =>
              /\ tasks'[i].pc = "done"
              /\ "start:err" \in SeqRange(tasks'[i].did)
              /\ recorder'.stream = recorder.stream
              /\ recorder'.samples = recorder.samples]_vars

\* The wire entries of task i.
WireOf(i, op) == {j \in 1..Len(wire) : wire[j].by = i /\ wire[j].op = op}

\* A transcribe call that got past its write has returned from its read.
RoundTripDone(i) ==
    /\ i \in DOMAIN tasks
    /\ tasks[i].pc \notin {"t_lock", "t_write", "t_read"}
    /\ WireOf(i, "request") # {}

\* C4: transcribe calls never interleave on the worker's streams: every
\* request line is followed at once by the response line read by the same
\* call, a response line is read only right after that call's request, no
\* call writes or reads twice, and a call that wrote its request and
\* returned has read exactly one response.
C4_NoInterleave ==
    /\ \A j \in 1..Len(wire) :
          wire[j].op = "request" =>
              \/ j = Len(wire)
              \/ wire[j + 1] = [op |-> "response", by |-> wire[j].by]
    /\ \A j \in 1..Len(wire) :
          wire[j].op = "response" =>
              /\ j > 1
              /\ wire[j - 1] = [op |-> "request", by |-> wire[j].by]
    /\ \A i \in DOMAIN tasks :
          /\ Cardinality(WireOf(i, "request")) <= 1
          /\ Cardinality(WireOf(i, "response")) <= 1
          /\ RoundTripDone(i) => Cardinality(WireOf(i, "response")) = 1

\* C4's case: one call has finished its round trip and a second call, made
\* while the first was under way, has written its request.
C4_Witness ==
    \E i, k \in DOMAIN tasks :
        /\ i # k
        /\ RoundTripDone(i)
        /\ tasks[k].pc = "t_read"
        /\ Len(wire) = 3

\* start() has read the worker's "ready" line.
ReadyWasRead == start_pc \in {"store", "flag", "done"}

\* C5: a request line is on the wire only if start() has read the worker's
\* "ready" line before; a transcribe call that finds no session returns an
\* error and has written nothing.
C5_NoRequestBeforeReady ==
    /\ wire # <<>> => ReadyWasRead
    /\ \A i \in DOMAIN tasks :
          tasks[i].result.val = "Sidecar not running" =>
              /\ ~tasks[i].result.ok
              /\ WireOf(i, "request") = {}

\* C5's case: one call was refused before or during startup, or after a
\* failed one, and a later call has written its request after "ready".
C5_Witness ==
    \E i, k \in DOMAIN tasks :
        /\ tasks[i].result.val = "Sidecar not running"
        /\ WireOf(k, "request") # {}

\* The startup output that the spec accepts: "ready" first, or "loading"
\* then "ready".
ScriptComesUp ==
    \/ Len(script) >= 1 /\ script[1] = StatusLine("ready")
    \/ Len(script) >= 2 /\ script[1] = StatusLine("loading")
                        /\ script[2] = StatusLine("ready")

\* C6: start() succeeds, and the readiness flag becomes true, only on a
\* startup output whose first line is "ready" or whose first two lines are
\* "loading" then "ready", and on such an output it fails only if the worker
\* could not be spawned (no line was read); whenever start() has failed the
\* flag is false and no session is stored.
C6_StartVerdict ==
    /\ start_pc \in {"store", "flag", "done"} => ScriptComesUp
    /\ sidecar_ready => start_pc = "done" /\ ScriptComesUp
    /\ start_pc = "failed" => ~sidecar_ready /\ SIDECAR = "None"
    /\ (start_pc = "failed" /\ ScriptComesUp) => wout = script

\* C6's case: "loading" then "ready" was read and the flag is set.
C6_Witness ==
    /\ start_pc = "done"
    /\ sidecar_ready
    /\ script = <<StatusLine("loading"), StatusLine("ready")>>

\* Every task that was spawned has run to its end.
AllTasksDone == \A i \in DOMAIN tasks : tasks[i].pc = "done"

\* C11: whenever the hotkey is Idle, the callback has returned and every
\* spawned press and release task has finished, no capture stream is open.
C11_NoStreamWhenIdle ==
    (hpc = "idle" /\ ~HOTKEY_ACTIVE /\ AllTasksDone) => recorder.stream = 0

\* What a release task does up to the point where stop() has returned a path.
ReleasePrefix == <<"is_recording:=false", "stop:ok", "transcription-started">>

\* C12: a finished release task whose stop() returned a path has done exactly
\* one of three things: on a non-empty text, handed that text and the combo's
\* modifier key codes to text insertion and emitted transcription-complete;
\* on an empty text, nothing more; on an error, emitted transcription-error
\* and inserted nothing.
C12_ExactlyOneOutcome ==
    \A i \in DOMAIN tasks :
        (/\ tasks[i].kind = "release"
         /\ tasks[i].pc = "done"
         /\ "stop:ok" \in SeqRange(tasks[i].did)) =>
            LET r == tasks[i].result IN
            /\ (r.ok /\ r.val # "") =>
                  /\ tasks[i].did = ReleasePrefix \o <<"insert", "transcription-complete">>
                  /\ tasks[i].ins = [text |-> r.val,
                                     keycodes |-> modifier_keycodes(current_hotkey)]
            /\ (r.ok /\ r.val = "") =>
                  /\ tasks[i].did = ReleasePrefix
                  /\ tasks[i].ins = NoInsert
            /\ ~r.ok =>
                  /\ tasks[i].did = ReleasePrefix \o <<"transcription-error">>
                  /\ tasks[i].ins = NoInsert

\* C12's case: a release task got an empty text from the worker and has
\* finished without inserting or notifying.
C12_Witness ==
    \E i \in DOMAIN tasks :
        /\ tasks[i].kind = "release" /\ tasks[i].pc = "done"
        /\ tasks[i].result = [ok |-> TRUE, val |-> ""]
        /\ tasks[i].did = ReleasePrefix

\* C13: once every task of the push-to-talk cycles has finished, no artifact
\* file is left on disk.
C13_NoArtifactLeft ==
    AllTasksDone => files = {}

ReadReturns(i) ==
    /\ tasks[i].pc = "t_read"
    /\ tasks'[i].pc # "t_read"
    /\ tasks'[i].result.val # "Failed to read from sidecar"

\* C15: a transcribe call that read a response line with success=true and a
\* text returns that text, and one that read a line with success=false and
\* an error string returns that string as its error.
C15_ResultOfResponse ==
    [][\A i \in DOMAIN tasks :
          ReadReturns(i) =>
              /\ (NextLine.kind = "response" /\ NextLine.success
                    /\ NextLine.text # Null) =>
                    tasks'[i].result = [ok |-> TRUE, val |-> NextLine.text]
              /\ (NextLine.kind = "response" /\ ~NextLine.success
                    /\ NextLine.error # Null) =>
                    tasks'[i].result = [ok |-> FALSE, val |-> NextLine.error]]_vars

\* C15's case: one call returned "hello", another the error "boom".
C15_Witness ==
    \E i, k \in DOMAIN tasks :
        /\ tasks[i].pc = "done" /\ tasks[i].result = [ok |-> TRUE, val |-> "hello"]
        /\ tasks[k].pc = "done" /\ tasks[k].result = [ok |-> FALSE, val |-> "boom"]

\* A response line that carries a text.
IsTextResponse(line) ==
    line.kind = "response" /\ line.success /\ line.text # Null

\* C16: a transcribe call that fails at its write, at its read, on an
\* unparseable line or on a success=false response returns an error, and at
\* its return the stored session and the readiness flag are what they were
\* and the session lock is free for the next call.
C16_FailureKeepsSession ==
    [][\A i \in DOMAIN tasks :
          /\ (tasks[i].pc = "t_write" /\ tasks'[i].pc # "t_write" /\ weof) =>
                ~tasks'[i].result.ok
          /\ (tasks[i].pc = "t_read" /\ tasks'[i].pc # "t_read"
                /\ ~IsTextResponse(NextLine)) =>
                ~tasks'[i].result.ok
          /\ (/\ tasks[i].pc \in {"t_write", "t_read"}
              /\ tasks'[i].pc \notin {"t_write", "t_read"}
              /\ ~tasks'[i].result.ok) =>
                /\ SIDECAR = "Some" /\ SIDECAR' = SIDECAR
                /\ sidecar_ready' = sidecar_ready
                /\ sidecar_lock' = 0]_vars

\* C16's case: a call failed on an unparseable line, and a later call has
\* written its request to the same worker.
C16_Witness ==
    \E i, k \in DOMAIN tasks :
        /\ tasks[i].pc = "done"
        /\ tasks[i].result.val = "Failed to parse transcription response"
        /\ WireOf(i, "request") # {} /\ WireOf(k, "request") # {}
        /\ \A a \in WireOf(i, "request"), b \in WireOf(k, "request") : a < b
        /\ SIDECAR = "Some"

\* C17: when clear_held_keys has returned, the held-key set is empty and the
\* hotkey is Idle, whatever keys were held and whether the hotkey was Active
\* when set_hotkey called it.
C17_ClearForcesIdle ==
    spc = "s_save" => (HELD_KEYS = {} /\ ~HOTKEY_ACTIVE)

\* C17's case: clear_held_keys has returned while every key of the new combo
\* is still physically down.
C17_Witness ==
    /\ spc = "s_save"
    /\ phys # {}
    /\ AllHeld(required_keycodes(current_hotkey), phys)
    /\ HELD_KEYS = {} /\ ~HOTKEY_ACTIVE

\* Task i's stop() call runs in this step, on an open stream.
StopRuns(i) ==
    /\ tasks[i].pc = "a_stop"
    /\ tasks'[i].pc # "a_stop"
    /\ recorder.stream # 0

\* The files at a path.
FilesAt(fs, path) == {f \in fs : f.path = path}

\* C18: stop() on an open stream whose buffer holds no sample returns the
\* error "No audio samples recorded", creates no file, and leaves the
\* recorder without a stream.
C18_EmptyCapture ==
    [][\A i \in DOMAIN tasks :
          (StopRuns(i) /\ recorder.samples = <<>>) =>
              /\ tasks'[i].pc = "done"
              /\ tasks'[i].result = [ok |-> FALSE, val |-> "No audio samples recorded"]
              /\ files' = files
              /\ recorder'.stream = 0]_vars

\* C18's case: a stream was opened and stopped before any sample arrived.
C18_Witness ==
    \E i \in DOMAIN tasks :
        /\ tasks[i].pc = "done"
        /\ tasks[i].result = [ok |-> FALSE, val |-> "No audio samples recorded"]
        /\ recorder.stream = 0 /\ recorder.output_path # 0
        /\ FilesAt(files, recorder.output_path) = {}

\* C19: stop() returns a path only if the file it finalized is larger than
\* the 44-byte header, that is, holds at least one sample; when the file it
\* left is no larger than the header, stop() returns an error, which is "WAV
\* file is empty or too small" unless a write failed.
C19_PathOnlyIfLargerThanHeader ==
    [][\A i \in DOMAIN tasks :
          (StopRuns(i) /\ recorder.samples # <<>>) =>
              /\ tasks'[i].pc = "t_lock" =>
                    /\ tasks'[i].path = recorder.output_path
                    /\ FilesAt(files', recorder.output_path) # {}
                    /\ \A f \in FilesAt(files', recorder.output_path) :
                          WavFileBytes(f.data) > WavHeaderBytes /\ Len(f.data) >= 1
              /\ (\E f \in FilesAt(files', recorder.output_path) :
                      WavFileBytes(f.data) <= WavHeaderBytes) =>
                    /\ tasks'[i].pc = "done"
                    /\ ~tasks'[i].result.ok
                    /\ tasks'[i].result.val \in
                          {"WAV file is empty or too small", "Failed to write sample"}]_vars

\* C19's case: a short recording at a device rate above the target rate was
\* resampled to nothing; every write succeeded, the header-only file is on
\* disk and stop() reported it as too small.
C19_Witness ==
    \E i \in DOMAIN tasks :
        /\ tasks[i].pc = "done"
        /\ tasks[i].result = [ok |-> FALSE, val |-> "WAV file is empty or too small"]
        /\ recorder.sample_rate # TARGET_SAMPLE_RATE
        /\ \E f \in FilesAt(files, recorder.output_path) : f.data = <<>>

\* C20: resample_audio with the source rate equal to the target rate returns
\* its input, for every buffer the recorder holds and every rate; and when
\* the device rate is the target rate, the file of a stop() that returned a
\* path holds exactly the captured samples, in order.
C20_SameRateIsIdentity ==
    /\ [](\A r \in DeviceRates :
             resample_audio(recorder.samples, r, r) = recorder.samples)
    /\ [][\A i \in DOMAIN tasks :
             (/\ StopRuns(i)
              /\ recorder.sample_rate = TARGET_SAMPLE_RATE
              /\ tasks'[i].pc = "t_lock") =>
                 FilesAt(files', recorder.output_path) =
                    {[path |-> recorder.output_path,
                      data |-> EncodeWav(recorder.samples)]}]_vars

\* C20's case: two samples captured at the target rate are in the file of
\* the stop() that returned, in the order they were delivered.
C20_Witness ==
    /\ recorder.stream = 0
    /\ recorder.sample_rate = TARGET_SAMPLE_RATE
    /\ \E f \in FilesAt(files, recorder.output_path) :
          /\ Len(f.data) = 2
          /\ f.data[1].pcm.n = 1 /\ f.data[2].pcm.n = 2
    /\ \E i \in DOMAIN tasks : tasks[i].path = recorder.output_path

\* C21: for every source rate, target rate and input length n, the number of
\* samples resample_audio returns differs from n * target / source by less
\* than the output of one chunk.
Abs(x) == IF x < 0 THEN -x ELSE x

C21_LengthWithinOneChunk ==
    (calc.fn = "resample_audio" /\ calc.out >= 0) =>
        Abs(calc.out * calc.source_rate - calc.n * calc.target_rate)
            < output_frames_per_chunk(calc.source_rate, calc.target_rate)
                * calc.source_rate

\* A call that ran two whole chunks and a zero-padded partial one.
C21_Witness ==
    /\ calc.fn = "resample_audio" /\ calc.out >= 0
    /\ calc.source_rate # calc.target_rate
    /\ calc.n \div input_frames_per_chunk(calc.source_rate, calc.target_rate) = 2
    /\ calc.n % input_frames_per_chunk(calc.source_rate, calc.target_rate) > 0

\* C29: for the final partial frame of r real samples, resample_audio keeps
\* round(r * target_rate / source_rate) output samples, capped at the
\* frame's output length.
RoundedShare(r, source_rate, target_rate) ==
    (2 * r * target_rate + source_rate) \div (2 * source_rate)

C29_PartialFrameRounds ==
    LET frames == input_frames_per_chunk(calc.source_rate, calc.target_rate)
        per_chunk == output_frames_per_chunk(calc.source_rate, calc.target_rate)
        r == calc.n % frames
    IN (/\ calc.fn = "resample_audio" /\ calc.out >= 0
        /\ calc.source_rate # calc.target_rate /\ r > 0) =>
           calc.out - (calc.n \div frames) * per_chunk
               = Min(RoundedShare(r, calc.source_rate, calc.target_rate), per_chunk)

\* C22: a float sample in [-1, 1] written as 16-bit PCM and decoded again
\* (the 16-bit value over 32768) is within 1/32768 of the sample.
C22_RoundTripWithinOneStep ==
    (/\ calc.fn = "write_wav_file" /\ calc.written
     /\ -calc.den <= calc.num /\ calc.num <= calc.den) =>
        Abs(calc.sample_i16 * calc.den - calc.num * 32768) <= calc.den

\* C23: a tap-disabled event makes the callback re-enable the tap and is not
\* processed as a key event: while the callback handles it the held-key set
\* and the activation state do not change and no task is spawned, and when
\* the callback has returned the tap is enabled again.
C23_TapDisabledOnlyReenables ==
    /\ [](hpc = "idle" => tap_enabled)
    /\ [][ev.type \in TapDisabledTypes =>
            /\ UNCHANGED <<HELD_KEYS, HOTKEY_ACTIVE, tasks>>
            /\ hpc' # hpc => (tap_enabled' /\ hpc' = "idle")]_vars

\* The callback has returned from a tap-disabled event and the hotkey is
\* Active: of the two events delivered, one pressed the single modifier that
\* is down, and only a tap-disabled event leaves the keyboard as it was.
C23_Witness ==
    /\ hpc = "idle" /\ tap_enabled /\ HOTKEY_ACTIVE
    /\ nEvents = 2 /\ Len(tasks) = 1
    /\ Cardinality(phys) = 1 /\ HELD_KEYS = phys
    /\ \A k \in phys : is_modifier_keycode(k)

\* C24: the main event loop, which delivers the keyboard events, is never
\* occupied by recording, transcription or text insertion.
C24_MainLoopNeverOccupied == ~main_thread.busy

\* C25: no timeout bounds a transcription round-trip. As long as the worker
\* has not answered, the transcribe() call that wrote the request stays in
\* its read and keeps the session lock, and as long as the lock is held
\* every other transcribe() call waits for it; a cycle inside transcribe()
\* has emitted neither transcription-complete nor transcription-error.
InTranscribe(task) == task.pc \in {"t_lock", "t_write", "t_read"}

C25_HungWorkerBlocksAll ==
    /\ [](\A k \in DOMAIN tasks : InTranscribe(tasks[k]) =>
             \A j \in DOMAIN tasks[k].did :
                tasks[k].did[j] \notin {"transcription-complete", "transcription-error"})
    /\ [][\A k \in DOMAIN tasks :
            /\ (tasks[k].pc = "t_read" /\ ~CanReadLine) =>
                   (tasks'[k] = tasks[k] /\ sidecar_lock' = k)
            /\ (tasks[k].pc = "t_lock" /\ sidecar_lock # 0) =>
                   tasks'[k] = tasks[k]]_vars

\* The worker has not answered the first cycle's request, and the release
\* task of a later cycle waits for the session lock.
C25_Witness ==
    /\ tasks[2].pc = "t_read" /\ ~CanReadLine /\ sidecar_lock = 2
    /\ \E k \in DOMAIN tasks :
          /\ k > 2 /\ tasks[k].kind = "release" /\ tasks[k].pc = "t_lock"

\* C26: build_label renders every given key code's label and joins them with
\* '+', every modifier's label before every non-modifier's, the input order
\* kept within each of the two groups.
IsModifierCode(keycode) == is_modifier_keycode(keycode)

IsPlainCode(keycode) == ~is_modifier_keycode(keycode)

C26_ModifiersFirstInOrder ==
    (calc.fn = "build_label" /\ calc.built) =>
        LET ordered == SelectSeq(calc.keycodes, IsModifierCode)
                          \o SelectSeq(calc.keycodes, IsPlainCode)
        IN calc.label =
              JoinPlus([i \in 1..Len(ordered) |-> keycode_to_label(ordered[i])])

\* build_label([49, 59, 0]) has returned "Left ^+Space+A" (with the control
\* sign): the modifier moved to the front, Space and A in their order.
C26_Witness ==
    /\ calc.fn = "build_label" /\ calc.built
    /\ calc.keycodes = <<49, 59, 0>>
    /\ calc.label = <<"L", "e", "f", "t", " ", "U+2303", "+",
                      "S", "p", "a", "c", "e", "+", "A">>

\* C27: no thread waits for one of the shared-state locks while it holds
\* another, the only nesting being the recorder's lock, then the sample
\* buffer's; and no set of threads is deadlocked on these locks.
Awaits(run, l) == Running(run) /\ NextOp(run) = Lock(l)

Deadlocked(threads) ==
    /\ threads # {}
    /\ \A t \in threads : \E l \in Locks :
          /\ Awaits(lock_pos[t], l)
          /\ \E u \in threads : l \in HeldBy(lock_pos[u])

C27_NoNestingNoDeadlock ==
    /\ \A t \in LockThreads : \A l \in Locks :
          Awaits(lock_pos[t], l) =>
             \/ HeldBy(lock_pos[t]) = {}
             \/ HeldBy(lock_pos[t]) = {"PTT_RECORDER"} /\ l = "samples"
    /\ \A threads \in SUBSET {t \in LockThreads : Running(lock_pos[t])} :
          ~Deadlocked(threads)

\* The release task waits for the recorder, which the press task holds while
\* it waits for the sample buffer, which the audio thread holds.
C27_Witness ==
    /\ Awaits(lock_pos["release"], "PTT_RECORDER")
    /\ "PTT_RECORDER" \in HeldBy(lock_pos["press"])
    /\ Awaits(lock_pos["press"], "samples")
    /\ "samples" \in HeldBy(lock_pos["audio"])

\* C28: a release task emits transcription-started only after stop() has
\* returned a path, and before it writes the request line for that path;
\* when stop() failed it emits no transcription-started and writes no
\* request.
DidAt(task, what) == {j \in DOMAIN task.did : task.did[j] = what}

C28_StartedBetweenStopAndRequest ==
    \A i \in DOMAIN tasks : tasks[i].kind = "release" =>
        /\ \A j \in DidAt(tasks[i], "transcription-started") :
              /\ tasks[i].path # 0
              /\ \E k \in DidAt(tasks[i], "stop:ok") : k < j
        /\ WireOf(i, "request") # {} =>
              DidAt(tasks[i], "transcription-started") # {}
        /\ DidAt(tasks[i], "stop:err") # {} =>
              /\ DidAt(tasks[i], "transcription-started") = {}
              /\ WireOf(i, "request") = {}

\* A release task has emitted transcription-started and written its request.
C28_Witness ==
    \E i \in DOMAIN tasks :
        /\ tasks[i].kind = "release"
        /\ WireOf(i, "request") # {}
        /\ DidAt(tasks[i], "transcription-started") # {}

\* C30: start() resets the sample buffer, so the samples a stop() takes are
\* exactly those the stream it stops has delivered, in delivery order, with
\* none from an earlier stream, also when start() was called while a stream
\* was open.
C30_StopTakesOnlyThisStream ==
    [][(recorder.stream # 0 /\ recorder'.stream = 0) =>
          \A j \in DOMAIN recorder.samples :
              recorder.samples[j] = [stream |-> recorder.stream, n |-> j]]_vars

\* The key codes of a submitted list of codes, and the positions of its plain
\* (non-modifier) keys.
SubmittedKeycodes(codes) == [i \in 1..Len(codes) |-> js_code_to_keycode(codes[i])]

PlainPositions(codes) ==
    {i \in 1..Len(codes) : ~is_modifier_keycode(SubmittedKeycodes(codes)[i])}

\* C31: the combo set_hotkey builds from an accepted list of codes requires
\* every submitted modifier key code and, of the submitted non-modifier key
\* codes, only the last one: an earlier non-modifier key is required only if
\* it is that same key.
C31_LastPlainKeyOnly ==
    (calc.fn = "set_hotkey" /\ calc.returned /\ ~calc.err) =>
        LET kcs == SubmittedKeycodes(calc.codes)
            plain == PlainPositions(calc.codes)
            mods == {kcs[i] : i \in (1..Len(kcs)) \ plain}
            last == IF plain = {} THEN {}
                    ELSE {kcs[CHOOSE i \in plain : \A j \in plain : j <= i]}
        IN /\ required_keycodes(calc.hotkey) = mods \cup last
           /\ Cardinality(required_keycodes(calc.hotkey) \ mods) <= 1

\* C31's case: a call with a modifier and two different plain keys has
\* returned a combo that requires the second plain key and not the first.
C31_Witness ==
    /\ calc.fn = "set_hotkey" /\ calc.returned /\ ~calc.err
    /\ calc.codes = <<"KeyA", "MetaRight", "Space">>
    /\ required_keycodes(calc.hotkey) = {54, 49}

\* C32: whenever handle_event has returned and no set_hotkey call is under
\* way, the hotkey is Active exactly if every required key code of the
\* active combo is in the held-key set.
C32_ActiveIffAllHeld ==
    (hpc = "idle" /\ spc = "idle") =>
        (HOTKEY_ACTIVE <=> AllHeld(required_keycodes(current_hotkey), HELD_KEYS))

\* C32's case: the combo was replaced by a two-key combo, both keys were
\* then pressed, one was released, and handle_event has returned Idle with
\* the other key still held.
C32_Witness ==
    /\ hpc = "idle" /\ spc = "idle" /\ nReconf = 1 /\ s_result = "ok"
    /\ required_keycodes(current_hotkey) = {RightCommand, Space}
    /\ nEvents = 3
    /\ HELD_KEYS = {RightCommand}
    /\ ~HOTKEY_ACTIVE
    /\ Len(tasks) = 2 /\ tasks[2].kind = "release"

\* C33: the pressed and released notifications, in the order handle_event
\* fired them, alternate and start with pressed: the first, third, ... task
\* spawned is a press task and the second, fourth, ... a release task.
C33_PressedReleasedAlternate ==
    \A i \in DOMAIN tasks :
        tasks[i].kind = IF i % 2 = 1 THEN "press" ELSE "release"

\* C34: whenever the hotkey is Idle, the callback has returned and every
\* spawned press and release task has finished, the is_recording flag is
\* false.
C34_FlagFalseWhenIdle ==
    (hpc = "idle" /\ ~HOTKEY_ACTIVE /\ AllTasksDone) => ~is_recording

\* The transcribe calls that have returned "Sidecar not running".
NotRunningReturns(ts) ==
    {i \in DOMAIN ts : ts[i].result = [ok |-> FALSE, val |-> "Sidecar not running"]}

\* C35: while the sidecar-ready flag is true a worker session is stored, and
\* a failed startup has stored none and has left the flag false; the flag,
\* once true, stays true and the session, once stored, stays stored; no
\* transcribe call returns "Sidecar not running" while the flag is true.
C35_ReadyImpliesSession ==
    /\ [](sidecar_ready => SIDECAR # "None")
    /\ [](start_pc = "failed" => (SIDECAR = "None" /\ ~sidecar_ready))
    /\ [][/\ sidecar_ready => sidecar_ready'
          /\ SIDECAR # "None" => SIDECAR' # "None"
          /\ sidecar_ready => NotRunningReturns(tasks') \subseteq NotRunningReturns(tasks)]_vars

\* C35's case: with the flag true and the session stored, one transcribe
\* call has returned a text, and another, made after the worker exited, has
\* failed to send its request.
C35_Witness ==
    /\ sidecar_ready /\ SIDECAR = "Some" /\ weof
    /\ Len(tasks) = 2
    /\ tasks[1].pc = "done" /\ tasks[1].result = [ok |-> TRUE, val |-> "hello"]
    /\ tasks[2].pc = "done"
    /\ tasks[2].result = [ok |-> FALSE, val |-> "Failed to send command to sidecar"]

\* C36: a set_hotkey call that returns an error leaves the combo, the
\* held-key set and the activation state as it found them: a call that
\* returns early changes none of them, and a call whose configuration write
\* fails returns with the three as they were when it was called.
C36_ErrorChangesNothing ==
    [][/\ (nReconf' # nReconf /\ s_result' = "err") =>
             UNCHANGED <<current_hotkey, HELD_KEYS, HOTKEY_ACTIVE>>
       /\ (spc = "s_save" /\ spc' = "idle" /\ s_result' = "err") =>
             /\ current_hotkey' = calc.hotkey
             /\ HELD_KEYS' = calc.held
             /\ HOTKEY_ACTIVE' = calc.active]_vars

ReleaseTasks == {i \in DOMAIN tasks : tasks[i].kind = "release"}

\* C38: texts are handed to text insertion in the order of the released
\* edges: no release task hands over its text after the release task of a
\* later cycle has handed over its own.
C38_InsertionInReleaseOrder ==
    [][\A i \in ReleaseTasks, j \in ReleaseTasks :
          (i < j /\ tasks[j].ins # NoInsert /\ tasks[i].ins = NoInsert)
              => tasks'[i].ins = NoInsert]_vars

\* C39: a transcribe call that read a response with success=true and no text
\* returns the error "No text in response", one that read a response with
\* success=false and no error string returns the error "Unknown error", and
\* a call returns a text only if the response it read carries that text.
C39_IncompleteResponseIsError ==
    [][\A i \in DOMAIN tasks :
          ReadReturns(i) =>
              /\ (NextLine.kind = "response" /\ NextLine.success
                    /\ NextLine.text = Null) =>
                    tasks'[i].result = [ok |-> FALSE, val |-> "No text in response"]
              /\ (NextLine.kind = "response" /\ ~NextLine.success
                    /\ NextLine.error = Null) =>
                    tasks'[i].result = [ok |-> FALSE, val |-> "Unknown error"]
              /\ tasks'[i].result.ok =>
                    (IsTextResponse(NextLine) /\ tasks'[i].result.val = NextLine.text)]_vars

\* C39's case: one call has returned "No text in response" and another
\* "Unknown error".
C39_Witness ==
    /\ Len(tasks) = 2
    /\ tasks[1].pc = "done"
    /\ tasks[1].result = [ok |-> FALSE, val |-> "No text in response"]
    /\ tasks[2].pc = "done"
    /\ tasks[2].result = [ok |-> FALSE, val |-> "Unknown error"]

====
